---- MODULE Spec2Model ----
(***************************************************************************)
(* Request pipeline of apaichon/api-design: the middleware package         *)
(* (Chain, WithRateLimit, WithCircuitBreaker) and the cache package        *)
(* (RedisCache, CacheAside, WriteThrough).  Each component has its own     *)
(* specification over the shared clock `now`:                              *)
(*   SpecCB     the circuit breaker middleware under concurrent requests   *)
(*   SpecRL     the rate limiter middleware, requests served in sequence   *)
(*   SpecRLConc the rate limiter registry under concurrent requests        *)
(*   SpecChain  the middleware chain composer                              *)
(*   SpecKey    cache key derivation (a pure function of the request)      *)
(*   SpecCache  the cache interceptor, requests served in sequence         *)
(*   SpecCacheConc  the cache interceptor under concurrent requests        *)
(*   SpecCacheTTL   the cache interceptor, configured TTL of any sign      *)
(*   SpecCacheShort the cache interceptor, a few requests of any kind      *)
(*   SpecWriter the response capture (CacheResponseWriter)                 *)
(*   SpecContacts   ContactService.CreateContact under concurrent calls    *)
(*   SpecBulk       ContactService.BulkCreateContacts                      *)
(*   SpecBucket the rate limiter serving one client address                *)
(*   SpecKeyBound  cache key derivation around the length limit            *)
(*   SpecLocks  the locks of the rate limiter and the circuit breaker      *)
(***************************************************************************)
EXTENDS Integers, Naturals, Sequences, FiniteSets, TLC

(***************************************************************************)
(* Bounds of the model.                                                    *)
(***************************************************************************)
MaxTime == 2
MaxRlTime == 1
MaxWorkers == 2
MaxCbRequests == 3
MaxThreshold == 2
MaxTimeout == 1
MaxRlRequests == 11
MaxConcRequests == 2
MaxKeys == 2
TicksPerToken == 1
MaxChain == 3
MaxChainRequests == 2
MaxQueryLen == 2
MaxCacheTime == 2
MaxCacheRequests == 3
MaxCacheConcRequests == 2
MaxWriterCalls == 3
MaxLockRequests == 1
MaxContactCalls == 2
MaxBatch == 2

Workers == 1..MaxWorkers

\* Goroutines are interchangeable: a new request is served by the first free one.
FirstFree(w, req) == \A v \in Workers : v < w => req[v].pc \notin {"idle", "done"}

(***************************************************************************)
(* HTTP status codes used by the middleware.                               *)
(***************************************************************************)
StatusOK == 200
StatusTooManyRequests == 429
StatusInternalServerError == 500
StatusServiceUnavailable == 503

VARIABLES
    now,          \* wall clock, in ticks
    horizon,      \* the last tick of the run
    \* ---- CircuitBreaker (part_002:201-207) ----
    failureThreshold,
    resetTimeout,
    cbLoad,       \* the load offered: how many requests
    failures,
    lastFailure,  \* time.Time: [zero |-> TRUE] is the zero value
    cbReaders,    \* goroutines holding cb.mu.RLock
    cbReq,        \* per goroutine: the request it is serving through WithCircuitBreaker
    cbServed,     \* requests accepted so far
    cbHist,       \* observation of the origin handler's outcomes
    \* ---- RateLimiter (part_002:156-159) ----
    limiters,     \* rl.limiters: key -> limiter instance (0: no entry)
    rlMu,         \* rl.mu: 0 when free, else the goroutine holding Lock
    limiterObjs,  \* the rate.Limiter objects allocated so far, by instance number
    rlReq,        \* per goroutine: the request it is serving through WithRateLimit
    rlServed,     \* requests accepted so far
    rlLoad,       \* the load offered: which goroutines serve requests, and how many requests
    rlObs,        \* per key: what the key's own requests alone determine
    \* ---- Chain (part_002:40-50) ----
    middlewares,  \* the interceptors given to Chain, in construction order
    chPc,         \* where the composed handler is in serving the current request
    chI,          \* the loop index i
    chLast,       \* the handler `last`: the interceptors wrapped around final, outermost first
    chDecide,     \* this request: what each interceptor will decide
    chTrace,      \* this request: handlers invoked so far, in order (0 is final)
    chResp,       \* this request: what has been written to the ResponseWriter
    chServed,     \* requests accepted so far
    \* ---- RedisCache.GetKey (part_007:105-130) ----
    ignoreParams, \* config.IgnoreParams
    kReq,         \* two requests
    kKey,         \* their cache keys, once derived
    \* ---- Cache interceptor (part_007:19-26, 194-281) ----
    cacheConfig,  \* the CacheConfig held by the RedisCache, and the pattern WithCache selected
    cacheStore,   \* the Redis keyspace: key -> entry
    caReq,        \* per goroutine: the request it is serving through the cache interceptor
    caServed,     \* requests accepted so far
    caLoad,       \* the load offered: which goroutines serve requests, and which requests
    \* ---- CacheResponseWriter (part_007:74-95) ----
    cwObj,        \* a CacheResponseWriter around a caller's writer
    cwLog,        \* the calls made on it so far, in order
    \* ---- ContactService (part_002:370-579) over ContactRepo ----
    contacts,     \* the "contacts" collection: its documents in insertion order
    csReq,        \* per goroutine: the service call it is executing
    csServed,     \* number of service calls started
    csLoad        \* the load offered: which goroutines call the service, and how often

cbVars == <<failureThreshold, resetTimeout, cbLoad, failures, lastFailure, cbReaders, cbReq,
            cbServed, cbHist>>

rlVars == <<limiters, rlMu, limiterObjs, rlReq, rlServed, rlLoad, rlObs>>

chVars == <<middlewares, chPc, chI, chLast, chDecide, chTrace, chResp, chServed>>

keyVars == <<ignoreParams, kReq, kKey>>

caVars == <<cacheConfig, cacheStore, caReq, caServed, caLoad>>

cwVars == <<cwObj, cwLog>>

csVars == <<contacts, csReq, csServed, csLoad>>

vars == <<now, horizon, cbVars, rlVars, chVars, keyVars, caVars, cwVars, csVars>>

(***************************************************************************)
(* Time.  time.Since(t) is Now().Sub(t); Sub saturates at the largest      *)
(* Duration, which is what it returns for the zero time.Time (year 1).     *)
(***************************************************************************)
MaxDuration == MaxTime + MaxRlTime + MaxTimeout + 1

ZeroTime == [zero |-> TRUE, t |-> 0]

Since(t) == IF t.zero THEN MaxDuration ELSE now - t.t

Tick ==
    /\ now < horizon
    /\ now' = now + 1
    /\ UNCHANGED <<horizon, cbVars, rlVars, chVars, keyVars, caVars, cwVars, csVars>>

(***************************************************************************)
(* Circuit breaker.                                                        *)
(***************************************************************************)
Thresholds == 0..MaxThreshold
ResetTimeouts == (1..MaxTimeout) \cup {MaxDuration}

CbIdle == [pc |-> "idle", open |-> FALSE, viaReset |-> FALSE, seenFailures |-> 0,
           seenElapsed |-> 0, status |-> 0, nextCalls |-> 0,
           tripDue |-> FALSE, trialSeen |-> "none"]

\* consec: origin failures since the last origin success; failAt: time of the last
\* origin failure; trial: outcome of the last request let through by the reset branch.
NoHist == [consec |-> 0, failAt |-> 0, trial |-> "none"]

\* NewCircuitBreaker(threshold, timeout): failures and lastFailure keep their zero values.
NewCircuitBreaker(thresholds, load) ==
    /\ failureThreshold \in thresholds
    /\ resetTimeout \in ResetTimeouts
    /\ cbLoad = load
    /\ failures = 0
    /\ lastFailure = ZeroTime
    /\ cbReaders = {}
    /\ cbReq = [w \in Workers |-> CbIdle]
    /\ cbServed = 0
    /\ cbHist = NoHist

InitCB == NewCircuitBreaker(Thresholds, MaxCbRequests)

\* The branch isOpen takes: "closed" (return false), "open" (return true),
\* "reset" (failures = 0; return false).
IsOpenBranchStrict(f, thr, elapsed, timeout) ==
    IF f >= thr
    THEN IF elapsed >= timeout THEN "reset" ELSE "open"
    ELSE "closed"

IsOpenBranchNoReset(f, thr, elapsed, timeout) ==
    IF f >= thr THEN "open" ELSE "closed"

IsOpenBranch(f, thr, elapsed, timeout) ==
    IF f >= thr
    THEN IF elapsed > timeout THEN "reset" ELSE "open"
    ELSE "closed"

\* What the origin's outcomes so far call for when a request reaches isOpen:
\* tripDue when at least failureThreshold >= 1 origin calls in a row have failed, the
\* last of them no longer than resetTimeout ago; trialSeen is the outcome of the
\* last trial request ("failed" only while its failure is within resetTimeout).
TripDue ==
    /\ failureThreshold >= 1
    /\ cbHist.consec >= failureThreshold
    /\ now - cbHist.failAt <= resetTimeout

TrialSeen ==
    IF cbHist.trial = "failed" /\ now - cbHist.failAt > resetTimeout
    THEN "none"
    ELSE cbHist.trial

\* The handler returned by WithCircuitBreaker starts serving a request.
CBArrive(w) ==
    /\ cbReq[w].pc \in {"idle", "done"}
    /\ FirstFree(w, cbReq)
    /\ cbServed < cbLoad
    /\ cbServed' = cbServed + 1
    /\ cbReq' = [cbReq EXCEPT ![w] = [CbIdle EXCEPT !.pc = "rlock"]]
    /\ UNCHANGED <<now, horizon, failureThreshold, resetTimeout, cbLoad, failures, lastFailure, cbReaders,
                   cbHist, rlVars, chVars, keyVars, caVars, cwVars, csVars>>

\* isOpen: cb.mu.RLock().  No code path takes the write lock, so RLock never blocks.
CBRLock(w) ==
    /\ cbReq[w].pc = "rlock"
    /\ cbReaders' = cbReaders \cup {w}
    /\ cbReq' = [cbReq EXCEPT ![w].pc = "check"]
    /\ UNCHANGED <<now, horizon, failureThreshold, resetTimeout, cbLoad, failures, lastFailure, cbServed,
                   cbHist, rlVars, chVars, keyVars, caVars, cwVars, csVars>>

\* isOpen: the two comparisons.
CBCheck(w) ==
    /\ cbReq[w].pc = "check"
    /\ LET b == IsOpenBranch(failures, failureThreshold, Since(lastFailure), resetTimeout)
       IN cbReq' = [cbReq EXCEPT ![w] =
                      [@ EXCEPT !.pc = IF b = "reset" THEN "reset" ELSE "runlock",
                                !.open = (b = "open"),
                                !.viaReset = (b = "reset"),
                                !.seenFailures = failures,
                                !.seenElapsed = Since(lastFailure),
                                !.tripDue = TripDue,
                                !.trialSeen = TrialSeen]]
    /\ UNCHANGED <<now, horizon, failureThreshold, resetTimeout, cbLoad, failures, lastFailure, cbReaders,
                   cbServed, cbHist, rlVars, chVars, keyVars, caVars, cwVars, csVars>>

\* isOpen: cb.failures = 0 (written while holding only the read lock).
CBReset(w) ==
    /\ cbReq[w].pc = "reset"
    /\ failures' = 0
    /\ cbReq' = [cbReq EXCEPT ![w].pc = "runlock"]
    /\ UNCHANGED <<now, horizon, failureThreshold, resetTimeout, cbLoad, lastFailure, cbReaders, cbServed,
                   cbHist, rlVars, chVars, keyVars, caVars, cwVars, csVars>>

\* isOpen returns: the deferred cb.mu.RUnlock().
CBRUnlock(w) ==
    /\ cbReq[w].pc = "runlock"
    /\ cbReaders' = cbReaders \ {w}
    /\ cbReq' = [cbReq EXCEPT ![w].pc = "decided"]
    /\ UNCHANGED <<now, horizon, failureThreshold, resetTimeout, cbLoad, failures, lastFailure, cbServed,
                   cbHist, rlVars, chVars, keyVars, caVars, cwVars, csVars>>

\* if cb.isOpen() { respondWithError(w, 503, ...); return }
CBReject(w) ==
    /\ cbReq[w].pc = "decided"
    /\ cbReq[w].open
    /\ cbReq' = [cbReq EXCEPT ![w].pc = "done", ![w].status = StatusServiceUnavailable]
    /\ UNCHANGED <<now, horizon, failureThreshold, resetTimeout, cbLoad, failures, lastFailure, cbReaders,
                   cbServed, cbHist, rlVars, chVars, keyVars, caVars, cwVars, csVars>>

\* next(w, r)
CBCallNext(w) ==
    /\ cbReq[w].pc = "decided"
    /\ ~cbReq[w].open
    /\ cbReq' = [cbReq EXCEPT ![w].pc = "origin", ![w].nextCalls = @ + 1]
    /\ UNCHANGED <<now, horizon, failureThreshold, resetTimeout, cbLoad, failures, lastFailure, cbReaders,
                   cbServed, cbHist, rlVars, chVars, keyVars, caVars, cwVars, csVars>>

\* A breaker that counted: a server error adds a failure, a success clears them.
AfterOriginCounting(f, st) == IF st = StatusInternalServerError THEN f + 1 ELSE 0

\* cb.failures after next(w, r) has returned with status st: the middleware does
\* nothing with the outcome, no statement of the package increments failures or
\* sets lastFailure.
AfterOrigin(f, st) == f

\* The origin handler returns, having written a success or a server-error response.
CBOriginReturn(w) ==
    /\ cbReq[w].pc = "origin"
    /\ \E st \in {StatusOK, StatusInternalServerError} :
         /\ failures' = AfterOrigin(failures, st)
         /\ cbReq' = [cbReq EXCEPT ![w].pc = "done", ![w].status = st]
         /\ cbHist' = IF st = StatusInternalServerError
                      THEN [consec |-> cbHist.consec + 1, failAt |-> now,
                            trial |-> IF cbReq[w].viaReset THEN "failed" ELSE "none"]
                      ELSE [consec |-> 0, failAt |-> cbHist.failAt,
                            trial |-> IF cbReq[w].viaReset THEN "ok" ELSE "none"]
    /\ UNCHANGED <<now, horizon, failureThreshold, resetTimeout, cbLoad, lastFailure, cbReaders,
                   cbServed, rlVars, chVars, keyVars, caVars, cwVars, csVars>>

(***************************************************************************)
(* Rate limiter.  Token amounts are counted in units of 1/TicksPerToken    *)
(* token: rate.Every(time.Second) refills one unit per tick.               *)
(***************************************************************************)
Burst == 10

Keys == 1..MaxKeys

OneToken == TicksPerToken
FullBucket == Burst * TicksPerToken

RlIdle == [pc |-> "idle", key |-> 0, limiter |-> 0, status |-> 0, nextCalls |-> 0,
           early |-> FALSE]

\* What the requests of one key determine on their own: the number of Allow calls
\* made for the key, the limiters created for it (how many, the first one and when),
\* and the bucket that the key's Allow calls alone leave behind.
NoObs == [calls |-> 0, made |-> 0, first |-> 0, created |-> 0,
          tokens |-> FullBucket, last |-> 0]

\* Requests served one at a time, enough of them to empty a bucket.
SerialLoad == [goroutines |-> {1}, requests |-> MaxRlRequests, keys |-> Keys]

\* The same, all from one client address.
SingleKeyLoad == [goroutines |-> {1}, requests |-> MaxRlRequests, keys |-> {1}]

\* Requests served by concurrent goroutines.
ConcurrentLoad == [goroutines |-> Workers, requests |-> MaxConcRequests, keys |-> Keys]

\* A few requests served by concurrent goroutines.
LightLoad == [goroutines |-> Workers, requests |-> MaxLockRequests, keys |-> Keys]

\* No request at all.
NoLoad == [goroutines |-> {}, requests |-> 0, keys |-> {}]

\* NewRateLimiter(): an empty registry.
NewRateLimiter ==
    /\ limiters = [k \in Keys |-> 0]
    /\ rlMu = 0
    /\ limiterObjs = <<>>
    /\ rlReq = [w \in Workers |-> RlIdle]
    /\ rlServed = 0
    /\ rlObs = [k \in Keys |-> NoObs]

InitRL == NewRateLimiter /\ rlLoad = SerialLoad

InitRLConc == NewRateLimiter /\ rlLoad = ConcurrentLoad

InitRLOneKey == NewRateLimiter /\ rlLoad = SingleKeyLoad

\* rate.NewLimiter(rate.Every(time.Second), 10): a full bucket.
NewLimiter(t) == [tokens |-> FullBucket, last |-> t]

\* A bucket that kept filling beyond its burst.
AdvanceUncapped(lim, t) == lim.tokens + (IF t < lim.last THEN 0 ELSE t - lim.last)

\* Limiter.advance: the tokens available at time t.
Advance(lim, t) ==
    LET e == IF t < lim.last THEN 0 ELSE t - lim.last
        tk == lim.tokens + e
    IN IF tk > FullBucket THEN FullBucket ELSE tk

\* Limiter.Allow at time t: a token is taken when one is available.
AllowOkOffByOne(lim, t) == Advance(lim, t) - OneToken > 0

AllowOk(lim, t) == Advance(lim, t) - OneToken >= 0

\* The limiter after Allow at time t: updated only when the request is allowed.
AfterAllow(lim, t) ==
    IF AllowOk(lim, t)
    THEN [lim EXCEPT !.tokens = Advance(lim, t) - OneToken, !.last = t]
    ELSE lim

\* rl.mu.Lock() succeeds when no goroutine holds the mutex.
MuFreeAlways(w) == TRUE

MuFree(w) == rlMu = 0

\* The map slot getLimiter reads and writes for a key.
SlotShared(k) == 1

Slot(k) == k

\* The handler returned by WithRateLimit starts serving a request: key := r.RemoteAddr.
RLArrive(w) ==
    /\ rlReq[w].pc \in {"idle", "done"}
    /\ w \in rlLoad.goroutines
    /\ FirstFree(w, rlReq)
    /\ rlServed < rlLoad.requests
    /\ rlServed' = rlServed + 1
    /\ \E k \in rlLoad.keys :
         rlReq' = [rlReq EXCEPT ![w] = [RlIdle EXCEPT !.pc = "lock", !.key = k,
                                                      !.early = (rlObs[k].made = 0)]]
    /\ UNCHANGED <<now, horizon, cbVars, chVars, keyVars, caVars, cwVars, csVars, rlLoad, limiters, rlMu, limiterObjs, rlObs>>

\* getLimiter: rl.mu.Lock()
RLLock(w) ==
    /\ rlReq[w].pc = "lock"
    /\ MuFree(w)
    /\ rlMu' = w
    /\ rlReq' = [rlReq EXCEPT ![w].pc = "lookup"]
    /\ UNCHANGED <<now, horizon, cbVars, chVars, keyVars, caVars, cwVars, csVars, rlLoad, limiters, limiterObjs, rlServed, rlObs>>

\* getLimiter: limiter, exists := rl.limiters[key]
RLLookup(w) ==
    /\ rlReq[w].pc = "lookup"
    /\ LET id == limiters[Slot(rlReq[w].key)]
       IN rlReq' = [rlReq EXCEPT ![w].limiter = id,
                                 ![w].pc = IF id = 0 THEN "create" ELSE "unlock"]
    /\ UNCHANGED <<now, horizon, cbVars, chVars, keyVars, caVars, cwVars, csVars, rlLoad, limiters, rlMu, limiterObjs, rlServed,
                   rlObs>>

\* getLimiter: limiter = rate.NewLimiter(...); rl.limiters[key] = limiter
RLCreate(w) ==
    /\ rlReq[w].pc = "create"
    /\ limiterObjs' = Append(limiterObjs, NewLimiter(now))
    /\ limiters' = [limiters EXCEPT ![Slot(rlReq[w].key)] = Len(limiterObjs) + 1]
    /\ rlReq' = [rlReq EXCEPT ![w].limiter = Len(limiterObjs) + 1, ![w].pc = "unlock"]
    /\ rlObs' = [rlObs EXCEPT ![rlReq[w].key] =
                    IF @.made = 0
                    THEN [@ EXCEPT !.made = 1, !.first = Len(limiterObjs) + 1,
                                   !.created = now, !.last = now]
                    ELSE [@ EXCEPT !.made = @ + 1]]
    /\ UNCHANGED <<now, horizon, cbVars, chVars, keyVars, caVars, cwVars, csVars, rlLoad, rlMu, rlServed>>

\* rl.mu after the deferred rl.mu.Unlock() of goroutine w.
UnlockedNever(mu, w) == mu

Unlocked(mu, w) == IF mu = w THEN 0 ELSE mu

\* getLimiter returns: the deferred rl.mu.Unlock()
RLUnlock(w) ==
    /\ rlReq[w].pc = "unlock"
    /\ rlMu' = Unlocked(rlMu, w)
    /\ rlReq' = [rlReq EXCEPT ![w].pc = "allow"]
    /\ UNCHANGED <<now, horizon, cbVars, chVars, keyVars, caVars, cwVars, csVars, rlLoad, limiters, limiterObjs, rlServed, rlObs>>

\* if !limiter.Allow() { respondWithError(w, 429, ...); return }; next(w, r)
RLAllow(w) ==
    /\ rlReq[w].pc = "allow"
    /\ LET id == rlReq[w].limiter
           k == rlReq[w].key
           ok == AllowOk(limiterObjs[id], now)
       IN /\ limiterObjs' = [limiterObjs EXCEPT ![id] = AfterAllow(@, now)]
          /\ rlObs' = [rlObs EXCEPT ![k] =
                         [@ EXCEPT !.calls = @ + 1,
                                   !.tokens = AfterAllow(rlObs[k], now).tokens,
                                   !.last = AfterAllow(rlObs[k], now).last]]
          /\ rlReq' = [rlReq EXCEPT ![w] =
                         [@ EXCEPT !.pc = IF ok THEN "origin" ELSE "done",
                                   !.status = IF ok THEN 0 ELSE StatusTooManyRequests,
                                   !.nextCalls = IF ok THEN @ + 1 ELSE @]]
    /\ UNCHANGED <<now, horizon, cbVars, chVars, keyVars, caVars, cwVars, csVars, rlLoad, limiters, rlMu, rlServed>>

\* The next handler returns.
RLOriginReturn(w) ==
    /\ rlReq[w].pc = "origin"
    /\ rlReq' = [rlReq EXCEPT ![w].pc = "done", ![w].status = StatusOK]
    /\ UNCHANGED <<now, horizon, cbVars, chVars, keyVars, caVars, cwVars, csVars, rlLoad, limiters, rlMu, limiterObjs, rlServed,
                   rlObs>>

(***************************************************************************)
(* Chain.  A handler built from interceptors is the sequence of their      *)
(* positions, outermost first, around final.                               *)
(***************************************************************************)
StatusUnauthorized == 401
StatusNoContent == 204

\* The interceptors of the package that the chain is built from: what each writes
\* before deciding, the status it answers with when it does not call next (0: it
\* always forwards).  CORS hands the request to corsHandler.ServeHTTP(w, r, next):
\* an actual request gets the CORS headers and goes to next; a preflight (OPTIONS
\* with Access-Control-Request-Method; OptionsPassthrough is not set) gets the
\* preflight headers and the success status, and next is not called.
Kinds == {"cors", "auth", "ratelimit", "circuitbreaker"}

RejectStatus(kind) ==
    CASE kind = "cors" -> StatusNoContent
      [] kind = "auth" -> StatusUnauthorized
      [] kind = "ratelimit" -> StatusTooManyRequests
      [] kind = "circuitbreaker" -> StatusServiceUnavailable
      [] OTHER -> 0

RECURSIVE SeqsUpTo(_, _)
SeqsUpTo(S, n) ==
    IF n = 0 THEN {<<>>}
    ELSE LET shorter == SeqsUpTo(S, n - 1)
         IN shorter \cup {Append(q, x) : q \in {r \in shorter : Len(r) = n - 1}, x \in S}

Decisions(mws) ==
    {d \in [1..Len(mws) -> {"forward", "reject"}] :
        \A i \in 1..Len(mws) : RejectStatus(mws[i]) = 0 => d[i] = "forward"}

InitChain ==
    /\ middlewares \in SeqsUpTo(Kinds, MaxChain)
    /\ chPc = "idle"
    /\ chI = 0
    /\ chLast = <<>>
    /\ chDecide = <<>>
    /\ chTrace = <<>>
    /\ chResp = <<>>
    /\ chServed = 0

\* last = middlewares[i](last)
WrapInside(i, last) == Append(last, i)

Wrap(i, last) == <<i>> \o last

\* An interceptor calls next unless it has answered the request itself.
CallsNextAlways(decision) == TRUE

CallsNext(decision) == decision = "forward"

\* What interceptor i writes to the response when it handles a request: CORS its
\* headers on every request, and each interceptor its status when it answers.
Writes(mws, d, i) ==
    (IF mws[i] = "cors" THEN <<[by |-> i, status |-> 0]>> ELSE <<>>)
    \o (IF d[i] = "reject" THEN <<[by |-> i, status |-> RejectStatus(mws[i])]>> ELSE <<>>)

\* The composed handler is called: last := final; i := len(middlewares) - 1.
ChainArrive ==
    /\ chPc = "idle"
    /\ chServed < MaxChainRequests
    /\ chServed' = chServed + 1
    /\ chDecide' \in Decisions(middlewares)
    /\ chLast' = <<>>
    /\ chI' = Len(middlewares)
    /\ chTrace' = <<>>
    /\ chResp' = <<>>
    /\ chPc' = "build"
    /\ UNCHANGED <<now, horizon, cbVars, rlVars, keyVars, caVars, cwVars, csVars, middlewares>>

\* for i >= 0 { last = middlewares[i](last); i-- }
ChainWrap ==
    /\ chPc = "build"
    /\ chI >= 1
    /\ chLast' = Wrap(chI, chLast)
    /\ chI' = chI - 1
    /\ UNCHANGED <<now, horizon, cbVars, rlVars, keyVars, caVars, cwVars, csVars, middlewares, chPc, chDecide, chTrace,
                   chResp, chServed>>

\* The loop ends: last(w, r)
ChainCall ==
    /\ chPc = "build"
    /\ chI = 0
    /\ chPc' = "run"
    /\ UNCHANGED <<now, horizon, cbVars, rlVars, keyVars, caVars, cwVars, csVars, middlewares, chI, chLast, chDecide,
                   chTrace, chResp, chServed>>

\* The outermost interceptor of the handler being called runs: it writes what it
\* writes and either calls the handler it wraps or returns.
ChainInvoke ==
    /\ chPc = "run"
    /\ chLast # <<>>
    /\ LET i == Head(chLast)
       IN /\ chTrace' = Append(chTrace, i)
          /\ chResp' = chResp \o Writes(middlewares, chDecide, i)
          /\ IF CallsNext(chDecide[i])
             THEN chLast' = Tail(chLast) /\ chPc' = "run"
             ELSE chLast' = <<>> /\ chPc' = "done"
    /\ UNCHANGED <<now, horizon, cbVars, rlVars, keyVars, caVars, cwVars, csVars, middlewares, chI, chDecide, chServed>>

\* No interceptor is left around it: final(w, r) runs and answers.
ChainFinal ==
    /\ chPc = "run"
    /\ chLast = <<>>
    /\ chTrace' = Append(chTrace, 0)
    /\ chResp' = Append(chResp, [by |-> 0, status |-> StatusOK])
    /\ chPc' = "done"
    /\ UNCHANGED <<now, horizon, cbVars, rlVars, keyVars, caVars, cwVars, csVars, middlewares, chI, chLast, chDecide,
                   chServed>>

\* The composed handler returns.
ChainFinish ==
    /\ chPc = "done"
    /\ chPc' = "idle"
    /\ UNCHANGED <<now, horizon, cbVars, rlVars, keyVars, caVars, cwVars, csVars, middlewares, chI, chLast, chDecide,
                   chTrace, chResp, chServed>>

(***************************************************************************)
(* RedisCache.GetKey.  A request is its method, its path and its raw       *)
(* query: the name=value pairs in the order they appear in the URL.  The   *)
(* two requests compared differ in their query only.                       *)
(***************************************************************************)
KeyLimit == 200

KeyPrefix == "api"

\* Parameter names, in the byte order url.Values.Encode sorts them into.
ParamNames == <<"a", "b", "utm">>
ParamValues == {"1", "x y"}
Methods == {"GET", "POST"}
LongPath == "/contacts/contacts/contacts/contacts/contacts/contacts/contacts/contacts/contacts/contacts/contacts/contacts/contacts/contacts/contacts/contacts/contacts/contacts/contacts/contacts/contacts/contacts/"
Paths == {"/contacts", LongPath}
\* A path that puts the key of a GET with the query a=1 exactly at the limit.
EdgePath == "/contacts/contacts/contacts/contacts/contacts/contacts/contacts/contacts/contacts/contacts/contacts/contacts/contacts/contacts/contacts/contacts/contacts/contacts/contacts/contacts/contact"
IgnoreSets == {{}, {"utm"}}

NameSet == {ParamNames[i] : i \in 1..Len(ParamNames)}
Pairs == [name : NameSet, value : ParamValues]
Queries == SeqsUpTo(Pairs, MaxQueryLen)
Request(m, p, q) == [method |-> m, path |-> p, query |-> q]

\* url.QueryEscape on the values of the model.
QueryEscape(v) == IF v = "x y" THEN "x+y" ELSE v

\* r.URL.Query(): name -> the values given for it, in order of appearance.
ValuesOf(q, n) ==
    LET own == SelectSeq(q, LAMBDA p : p.name = n)
    IN [i \in 1..Len(own) |-> own[i].value]

URLQuery(q) == [n \in {q[i].name : i \in 1..Len(q)} |-> ValuesOf(q, n)]

\* for _, param := range IgnoreParams { query.Del(param) }
DelParams(vals, ignore) == [n \in (DOMAIN vals) \ ignore |-> vals[n]]

RECURSIVE JoinPairs(_, _)
JoinPairs(n, vs) ==
    IF vs = <<>> THEN ""
    ELSE n \o "=" \o QueryEscape(Head(vs))
         \o (IF Tail(vs) = <<>> THEN "" ELSE "&" \o JoinPairs(n, Tail(vs)))

RECURSIVE JoinNames(_, _)
JoinNames(names, vals) ==
    IF names = <<>> THEN ""
    ELSE JoinPairs(Head(names), vals[Head(names)])
         \o (IF Tail(names) = <<>> THEN "" ELSE "&" \o JoinNames(Tail(names), vals))

\* The order in which Encode writes the names: sorted.
EncodeOrderUnsorted(vals, q) ==
    LET firsts == SelectSeq([i \in 1..Len(q) |-> [name |-> q[i].name, at |-> i]],
                            LAMBDA e : /\ e.name \in DOMAIN vals
                                       /\ \A j \in 1..(e.at - 1) : q[j].name # e.name)
    IN [i \in 1..Len(firsts) |-> firsts[i].name]

EncodeOrder(vals, q) == SelectSeq(ParamNames, LAMBDA n : n \in DOMAIN vals)

\* query.Encode() of the values parsed from the raw query q.
Encode(vals, q) == JoinNames(EncodeOrder(vals, q), vals)

\* The hex SHA-256 digest of s, as a symbol: distinct strings have distinct digests.
Sha256Hex(s) == "sha256(" \o s \o ")"

\* The number of characters of the digest the symbol stands for: %x of 32 bytes.
Sha256HexLen == 64

\* The number of characters of a key GetKey returned.
KeyLen(k) ==
    IF Len(k) >= Len(KeyPrefix \o ":hash:sha256(")
       /\ SubSeq(k, 1, Len(KeyPrefix \o ":hash:sha256(")) = KeyPrefix \o ":hash:sha256("
    THEN Len(KeyPrefix \o ":hash:") + Sha256HexLen
    ELSE Len(k)

\* A GetKey that hashed a key already at the limit.
GetKeyHashAtLimit(ignore, r) ==
    LET query == DelParams(URLQuery(r.query), ignore)
        key == KeyPrefix \o ":" \o r.method \o ":" \o r.path \o ":" \o Encode(query, r.query)
    IN IF Len(key) >= KeyLimit
       THEN KeyPrefix \o ":hash:" \o Sha256Hex(key)
       ELSE key

GetKey(ignore, r) ==
    LET query == DelParams(URLQuery(r.query), ignore)
        key == KeyPrefix \o ":" \o r.method \o ":" \o r.path \o ":" \o Encode(query, r.query)
    IN IF Len(key) > KeyLimit
       THEN KeyPrefix \o ":hash:" \o Sha256Hex(key)
       ELSE key

InitKey ==
    /\ ignoreParams \in IgnoreSets
    /\ \E m \in Methods, p \in Paths, q1, q2 \in Queries :
         kReq = <<Request(m, p, q1), Request(m, p, q2)>>
    /\ kKey = <<>>

\* A GET and a POST for the same path and query, short, long and at the limit.
InitKeyBound ==
    /\ ignoreParams \in IgnoreSets
    /\ \E p \in Paths \cup {EdgePath}, q \in Queries :
         kReq = <<Request("GET", p, q), Request("POST", p, q)>>
    /\ kKey = <<>>

\* GetKey is called for each of the two requests.
KeyDerive ==
    /\ kKey = <<>>
    /\ kKey' = <<GetKey(ignoreParams, kReq[1]), GetKey(ignoreParams, kReq[2])>>
    /\ UNCHANGED <<now, horizon, cbVars, rlVars, chVars, caVars, cwVars, csVars, ignoreParams, kReq>>

(***************************************************************************)
(* Cache interceptor: RedisCache, CacheResponseWriter, CacheAside.Apply,   *)
(* WriteThrough.Apply, WithCache.  In this component one clock tick is one *)
(* minute.  The Redis keyspace is a map from keys to entries that carry    *)
(* the instant at which Redis expires them.                                *)
(***************************************************************************)
StatusCreated == 201
StatusNotFound == 404

\* 15 * time.Minute
DefaultTTL == 15

\* The values of CacheConfig offered to NewRedisCache.
TTLInputs == {0, 1}
ExcludePaths == <<"/admin">>
InvalidateOn == {"POST"}
Patterns == {"CacheAside", "WriteThrough"}

\* The requests offered to the interceptor.
CachePaths == {"/contacts", "/admin/keys"}
CacheQueries == {<<>>, <<[name |-> "utm", value |-> "1"]>>}
CacheControls == {"", "no-cache"}
CacheRequests ==
    [method : Methods, path : CachePaths, query : CacheQueries, cacheControl : CacheControls]
NoRequest == [method |-> "", path |-> "", query |-> <<>>, cacheControl |-> ""]

\* What an origin handler does with its ResponseWriter: the headers it sets, the
\* status it passes to WriteHeader (0: it never calls WriteHeader) and the body it writes.
OriginResponses ==
    { [code |-> 0, headers |-> {}, body |-> "contact"],
      [code |-> StatusOK, headers |-> {<<"Content-Type", "application/json">>}, body |-> "ok"],
      [code |-> StatusCreated, headers |-> {}, body |-> "contact"],
      [code |-> StatusNotFound,
       headers |-> {<<"Content-Type", "text/plain; charset=utf-8">>,
                    <<"X-Content-Type-Options", "nosniff">>},
       body |-> "Contact not found"] }
NoOrigin == [code |-> 0, headers |-> {}, body |-> ""]

\* Outcomes of the Redis round trip and of the serializer.
FetchFaults == {"none", "conn", "decode"}
StoreFaults == {"none", "marshal", "conn", "ctx"}

NewRedisCache(config) ==
    [config EXCEPT !.TTL = IF config.TTL = 0 THEN DefaultTTL ELSE config.TTL]

\* WithCache: the pattern is chosen by the dynamic type of config.Strategy.
WithCache(config, strategy) ==
    [cache |-> NewRedisCache(config),
     pattern |-> IF strategy = "WriteThrough" THEN "WriteThrough" ELSE "CacheAside"]

HasPrefix(s, prefix) == Len(s) >= Len(prefix) /\ SubSeq(s, 1, Len(prefix)) = prefix

\* A test that took every read method for cacheable.
ShouldCacheAnyRead(config, r) ==
    /\ r.method \in {"GET", "HEAD"}
    /\ \A i \in 1..Len(config.ExcludePaths) : ~HasPrefix(r.path, config.ExcludePaths[i])
    /\ r.cacheControl # "no-cache"

ShouldCache(config, r) ==
    /\ r.method = "GET"
    /\ \A i \in 1..Len(config.ExcludePaths) : ~HasPrefix(r.path, config.ExcludePaths[i])
    /\ r.cacheControl # "no-cache"

(***************************************************************************)
(* http.ResponseWriter, as the server and httptest implement it: the first *)
(* Write without a WriteHeader sends 200; WriteHeader with a code outside  *)
(* 100..999 panics, which ends the handler; a second WriteHeader is        *)
(* ignored.  `calls` lists the calls made on the writer, in order.         *)
(***************************************************************************)
NewWriter == [header |-> {}, status |-> 0, body |-> "", calls |-> <<>>, aborted |-> FALSE]

ValidCode(code) == code >= 100 /\ code <= 999

\* w.Header()[k] = v for each (k, v) of hs
SetHeaders(w, hs) ==
    IF w.aborted THEN w
    ELSE [w EXCEPT !.header = {h \in @ : \A n \in hs : n[1] # h[1]} \cup hs,
                   !.calls = Append(@, [op |-> "Header", arg |-> hs])]

\* A WriteHeader after the header has been written is superfluous and ignored,
\* whatever its code; on a fresh writer an invalid code panics.
RwWriteHeader(w, code) ==
    IF w.aborted THEN w
    ELSE IF w.status # 0
    THEN [w EXCEPT !.calls = Append(@, [op |-> "WriteHeader", arg |-> code])]
    ELSE IF ~ValidCode(code)
    THEN [w EXCEPT !.aborted = TRUE,
                   !.calls = Append(@, [op |-> "WriteHeader", arg |-> code])]
    ELSE [w EXCEPT !.status = code,
                   !.calls = Append(@, [op |-> "WriteHeader", arg |-> code])]

RwWrite(w, b) ==
    IF w.aborted THEN w
    ELSE [w EXCEPT !.status = IF @ = 0 THEN StatusOK ELSE @,
                   !.body = @ \o b,
                   !.calls = Append(@, [op |-> "Write", arg |-> b])]

\* What the caller of a request has received.
Delivered(w) == [status |-> w.status, header |-> w.header, body |-> w.body,
                 aborted |-> w.aborted]

(***************************************************************************)
(* CacheResponseWriter: the wrapped writer rw, the buffer and the status.  *)
(***************************************************************************)
NewCacheResponseWriter(w) == [rw |-> w, body |-> "", status |-> 0]
NoCapture == [body |-> "", status |-> 0]

CwWriteBufferOnly(cw, b) == [cw EXCEPT !.body = @ \o b]

CwWriteForwardOnly(cw, b) == [cw EXCEPT !.rw = RwWrite(@, b)]

CwWrite(cw, b) == [cw EXCEPT !.body = @ \o b, !.rw = RwWrite(@, b)]

CwWriteHeaderKeepFirst(cw, status) ==
    [cw EXCEPT !.status = IF @ = 0 THEN status ELSE @, !.rw = RwWriteHeader(@, status)]

CwWriteHeader(cw, status) == [cw EXCEPT !.status = status, !.rw = RwWriteHeader(@, status)]

\* next(w, r): the origin handler answers o on the caller's writer.
ServeDirect(w, o) ==
    LET h == SetHeaders(w, o.headers)
        s == IF o.code = 0 THEN h ELSE RwWriteHeader(h, o.code)
    IN RwWrite(s, o.body)

\* next(cw, r): the origin handler answers o on a CacheResponseWriter.  Header()
\* is promoted from the embedded writer.
ServeCaptured(cw, o) ==
    LET h == [cw EXCEPT !.rw = SetHeaders(@, o.headers)]
        s == IF o.code = 0 THEN h ELSE CwWriteHeader(h, o.code)
    IN CwWrite(s, o.body)

(***************************************************************************)
(* The store.  An entry is the serialized CachedResponse and the instant   *)
(* Redis drops it.  Three fields observe the entry's history: `at` is the  *)
(* instant of the Store, `served` what the caller of the storing request   *)
(* received, and `stale` whether an invalidating request for the entry's   *)
(* path was served after the Store.                                        *)
(***************************************************************************)
NoDelivery == [status |-> 0, header |-> {}, body |-> "", aborted |-> FALSE]

NoEntry == [present |-> FALSE, status |-> 0, headers |-> {}, body |-> "",
            exp |-> 0, at |-> 0, served |-> NoDelivery, stale |-> FALSE]

CachedResponse(status, headers, body) ==
    [status |-> status, headers |-> headers, body |-> body]

\* Every key a request of the model can derive.
CacheKeys(ignore) ==
    {GetKey(ignore, r) : r \in [method : Methods, path : CachePaths, query : CacheQueries]}

\* The key a GET for the same path and query derives.
ReadKey(ignore, r) == GetKey(ignore, [r EXCEPT !.method = "GET"])

Live(entry) == entry.present /\ now < entry.exp

\* client.Set(ctx, key, data, TTL)
StoreNoExpiry(keyspace, key, response, ttl) ==
    [keyspace EXCEPT ![key] = [present |-> TRUE, status |-> response.status,
                               headers |-> response.headers, body |-> response.body,
                               exp |-> MaxDuration, at |-> 0, served |-> NoDelivery,
                               stale |-> FALSE]]

\* A store that kept successful responses only.
StoreSuccessOnly(keyspace, key, response, ttl) ==
    IF response.status >= 400 THEN keyspace
    ELSE [keyspace EXCEPT ![key] = [present |-> TRUE, status |-> response.status,
                                    headers |-> response.headers, body |-> response.body,
                                    exp |-> IF ttl > 0 THEN now + ttl ELSE MaxDuration,
                                    at |-> 0, served |-> NoDelivery,
                                    stale |-> FALSE]]

\* A store that updated an existing entry field by field and kept its headers.
StoreKeepingHeaders(keyspace, key, response, ttl) ==
    [keyspace EXCEPT ![key] = [present |-> TRUE, status |-> response.status,
                               headers |-> IF @.present THEN @.headers ELSE response.headers,
                               body |-> response.body,
                               exp |-> IF ttl > 0 THEN now + ttl ELSE MaxDuration,
                               at |-> 0, served |-> NoDelivery,
                               stale |-> FALSE]]

\* (go-redis sends an expiry only for an expiration > 0; otherwise the key is set
\* without one.)
Store(keyspace, key, response, ttl) ==
    [keyspace EXCEPT ![key] = [present |-> TRUE, status |-> response.status,
                               headers |-> response.headers, body |-> response.body,
                               exp |-> IF ttl > 0 THEN now + ttl ELSE MaxDuration,
                               at |-> 0, served |-> NoDelivery,
                               stale |-> FALSE]]

\* The Store made for the request of goroutine w, observed.
StoreFor(w, keyspace, key, response, ttl) ==
    [Store(keyspace, key, response, ttl) EXCEPT ![key].at = now,
                                                ![key].served = Delivered(caReq[w].w)]

\* Fetch: (nil, nil) on redis.Nil, (nil, err) on any other fault, else the entry.
Fetch(keyspace, key, fault) ==
    IF fault = "conn" THEN [cached |-> NoEntry, err |-> TRUE]
    ELSE IF ~Live(keyspace[key]) THEN [cached |-> NoEntry, err |-> FALSE]
    ELSE IF fault = "decode" THEN [cached |-> NoEntry, err |-> TRUE]
    ELSE [cached |-> keyspace[key], err |-> FALSE]

\* Invalidate: client.Del(ctx, key) removes the key; on a fault nothing changes.
Invalidate(keyspace, key, fault) ==
    IF fault = "conn" THEN keyspace ELSE [keyspace EXCEPT ![key] = NoEntry]

\* if err == nil && cached != nil
IsHit(res) == ~res.err /\ res.cached.present

\* The replay of a cached response on the caller's writer.
Replay(w, response) ==
    RwWrite(RwWriteHeader(SetHeaders(w, response.headers), response.status), response.body)

\* A failed Store is reported by fmt.Printf; the response is not touched.
AfterStoreErrorFails(w) == [w EXCEPT !.status = StatusInternalServerError]

AfterStoreError(w) == w

\* Nothing keeps track of the requests in flight for a key.
OriginFreeSingleFlight(w) ==
    \A v \in Workers \ {w} :
        ~(caReq[v].pc = "store" /\ caReq[v].key = caReq[w].key)

OriginFree(w) == TRUE

\* The entries an invalidating request makes stale: the GET entries of its path.
MarkStale(keyspace, config, r) ==
    IF r.method \notin config.InvalidateOn THEN keyspace
    ELSE [k \in DOMAIN keyspace |->
            IF /\ keyspace[k].present
               /\ \E q \in CacheQueries : k = ReadKey(config.IgnoreParams, [r EXCEPT !.query = q])
            THEN [keyspace[k] EXCEPT !.stale = TRUE]
            ELSE keyspace[k]]

CaIdle == [pc |-> "idle", r |-> NoRequest, key |-> "", w |-> NewWriter, cw |-> NoCapture,
           origin |-> NoOrigin, replayed |-> NoEntry, fetched |-> "none", stored |-> "none",
           storeArgs |-> <<>>, originCalls |-> 0, fetchCalls |-> 0, storeCalls |-> 0,
           logged |-> 0, raced |-> FALSE]

\* Any request, one after the other; or cacheable reads of one resource, concurrently.
SerialCacheLoad ==
    [goroutines |-> {1}, requests |-> MaxCacheRequests, offered |-> CacheRequests,
     strategies |-> Patterns, ttls |-> TTLInputs]
ConcurrentCacheLoad ==
    [goroutines |-> Workers, requests |-> MaxCacheConcRequests,
     offered |-> {r \in CacheRequests :
                     /\ r.method = "GET" /\ r.path = "/contacts"
                     /\ r.query = <<>> /\ r.cacheControl = ""},
     strategies |-> {"CacheAside"}, ttls |-> {1}]

\* Reads of one resource, one after the other, under every kind of configured TTL:
\* unset, positive and negative.
TTLCacheLoad ==
    [goroutines |-> {1}, requests |-> MaxCacheConcRequests,
     offered |-> {r \in CacheRequests :
                     /\ r.method = "GET" /\ r.path = "/contacts"
                     /\ r.query = <<>> /\ r.cacheControl = ""},
     strategies |-> {"CacheAside"}, ttls |-> {-1, 0, 1}]

\* Any request, under either pattern, a few of them.
ShortCacheLoad ==
    [goroutines |-> {1}, requests |-> MaxCacheConcRequests, offered |-> CacheRequests,
     strategies |-> Patterns, ttls |-> {1}]

NewCache(load) ==
    /\ \E ttl \in load.ttls, strategy \in load.strategies :
         cacheConfig = WithCache([TTL |-> ttl, KeyPrefix |-> KeyPrefix,
                                  IgnoreParams |-> {"utm"}, ExcludePaths |-> ExcludePaths,
                                  InvalidateOn |-> InvalidateOn], strategy)
    /\ cacheStore = [k \in CacheKeys({"utm"}) |-> NoEntry]
    /\ caReq = [w \in Workers |-> CaIdle]
    /\ caServed = 0
    /\ caLoad = load

InitCache == NewCache(SerialCacheLoad)

InitCacheConc == NewCache(ConcurrentCacheLoad)

InitCacheTTL == NewCache(TTLCacheLoad)

InitCacheShort == NewCache(ShortCacheLoad)

\* A CacheAside that consulted the store for every request.
RouteAlwaysFetch(cache, r) ==
    IF cache.pattern = "WriteThrough" /\ r.method # "GET" THEN "wtorigin"
    ELSE "fetch"

\* A WriteThrough that took its write path for reads too.
RouteWriteThroughAll(cache, r) ==
    IF cache.pattern = "WriteThrough" THEN "wtorigin"
    ELSE IF ~ShouldCache(cache.cache, r) THEN "pass"
    ELSE "fetch"

\* A GetKey that deleted the ignored parameters from the request's own query.
AfterGetKeyStripped(ignore, r) ==
    [r EXCEPT !.query = SelectSeq(@, LAMBDA p : p.name \notin ignore)]

\* The request after rc.GetKey(r): r.URL.Query() parses the raw query into a new
\* map, and the parameters are deleted from that map only.
AfterGetKey(ignore, r) == r

\* The request after rc.ShouldCache(r), which reads the method, the path and a
\* header.
AfterShouldCache(config, r) == r

\* The first branch the handler takes: WriteThrough.Apply (243), CacheAside.Apply (200).
Route(cache, r) ==
    IF cache.pattern = "WriteThrough" /\ r.method # "GET" THEN "wtorigin"
    ELSE IF ~ShouldCache(cache.cache, r) THEN "pass"
    ELSE "fetch"

\* A request reaches the handler WithCache returned.
CacheArrive(w) ==
    /\ w \in caLoad.goroutines
    /\ caReq[w].pc \in {"idle", "done"}
    /\ FirstFree(w, caReq)
    /\ caServed < caLoad.requests
    /\ \E r \in caLoad.offered :
         caReq' = [caReq EXCEPT ![w] = [CaIdle EXCEPT !.pc = Route(cacheConfig, r), !.r = r]]
    /\ caServed' = caServed + 1
    /\ UNCHANGED <<now, horizon, cbVars, rlVars, chVars, keyVars, cwVars, csVars, cacheConfig, cacheStore, caLoad>>

\* CacheAside.Apply, not cacheable: next(w, r); return
CachePass(w) ==
    /\ caReq[w].pc = "pass"
    /\ \E o \in OriginResponses :
         caReq' = [caReq EXCEPT ![w].pc = "done",
                                ![w].r = AfterShouldCache(cacheConfig.cache, @),
                                ![w].w = ServeDirect(@, o),
                                ![w].origin = o,
                                ![w].originCalls = @ + 1]
    /\ cacheStore' = MarkStale(cacheStore, cacheConfig.cache, caReq[w].r)
    /\ UNCHANGED <<now, horizon, cbVars, rlVars, chVars, keyVars, cwVars, csVars, cacheConfig, caServed, caLoad>>

\* CacheAside.Apply: GetKey, Fetch and, on a hit, the replay.
CacheFetch(w) ==
    /\ caReq[w].pc = "fetch"
    /\ \E fault \in FetchFaults :
         LET key == GetKey(cacheConfig.cache.IgnoreParams, caReq[w].r)
             res == Fetch(cacheStore, key, fault)
             \* the requests for the same key that have fetched and not yet stored
             ahead == IF IsHit(res) THEN {}
                      ELSE {v \in Workers \ {w} : /\ caReq[v].pc \in {"origin", "store"}
                                                  /\ caReq[v].key = key}
             mine == [caReq[w] EXCEPT
                !.r = AfterGetKey(cacheConfig.cache.IgnoreParams,
                                  AfterShouldCache(cacheConfig.cache, @)),
                !.key = key,
                !.fetchCalls = @ + 1,
                !.fetched = IF res.err THEN "error" ELSE IF IsHit(res) THEN "hit" ELSE "miss",
                !.raced = ahead # {},
                !.replayed = IF IsHit(res) THEN res.cached ELSE NoEntry,
                !.w = IF IsHit(res) THEN Replay(@, res.cached) ELSE @,
                !.pc = IF IsHit(res) THEN "done" ELSE "origin"]
         IN caReq' = [v \in Workers |->
                        IF v = w THEN mine
                        ELSE IF v \in ahead THEN [caReq[v] EXCEPT !.raced = TRUE]
                        ELSE caReq[v]]
    /\ UNCHANGED <<now, horizon, cbVars, rlVars, chVars, keyVars, cwVars, csVars, cacheConfig, cacheStore,
                   caServed, caLoad>>

\* CacheAside.Apply, miss: cw := NewCacheResponseWriter(w); next(cw, r)
CacheOrigin(w) ==
    /\ caReq[w].pc = "origin"
    /\ OriginFree(w)
    /\ \E o \in OriginResponses :
         LET cw == ServeCaptured(NewCacheResponseWriter(caReq[w].w), o)
         IN caReq' = [caReq EXCEPT ![w].pc = "store",
                                   ![w].w = cw.rw,
                                   ![w].cw = [body |-> cw.body, status |-> cw.status],
                                   ![w].origin = o,
                                   ![w].originCalls = @ + 1]
    /\ UNCHANGED <<now, horizon, cbVars, rlVars, chVars, keyVars, cwVars, csVars, cacheConfig, cacheStore,
                   caServed, caLoad>>

\* CacheAside.Apply, miss: Store the captured response; a failure is printed.
CacheStore(w) ==
    /\ caReq[w].pc = "store"
    /\ \E fault \in StoreFaults :
         LET response == CachedResponse(caReq[w].cw.status, caReq[w].w.header, caReq[w].cw.body)
         IN /\ cacheStore' = IF fault = "none"
                             THEN StoreFor(w, cacheStore, caReq[w].key, response,
                                           cacheConfig.cache.TTL)
                             ELSE cacheStore
            /\ caReq' = [caReq EXCEPT
                   ![w].pc = "done",
                   ![w].storeCalls = @ + 1,
                   ![w].storeArgs = <<caReq[w].key, response>>,
                   ![w].stored = IF fault = "none" THEN "ok" ELSE "error",
                   ![w].logged = IF fault = "none" THEN @ ELSE @ + 1,
                   ![w].w = IF fault = "none" THEN @ ELSE AfterStoreError(@)]
    /\ UNCHANGED <<now, horizon, cbVars, rlVars, chVars, keyVars, cwVars, csVars, cacheConfig, caServed, caLoad>>

\* WriteThrough.Apply, r.Method != "GET": GetKey; cw := NewCacheResponseWriter(w); next(cw, r)
WTOrigin(w) ==
    /\ caReq[w].pc = "wtorigin"
    /\ \E o \in OriginResponses :
         LET cw == ServeCaptured(NewCacheResponseWriter(caReq[w].w), o)
         IN caReq' = [caReq EXCEPT ![w].pc = "wtstore",
                                   ![w].r = AfterGetKey(cacheConfig.cache.IgnoreParams, @),
                                   ![w].key = GetKey(cacheConfig.cache.IgnoreParams, caReq[w].r),
                                   ![w].w = cw.rw,
                                   ![w].cw = [body |-> cw.body, status |-> cw.status],
                                   ![w].origin = o,
                                   ![w].originCalls = @ + 1]
    /\ cacheStore' = MarkStale(cacheStore, cacheConfig.cache, caReq[w].r)
    /\ UNCHANGED <<now, horizon, cbVars, rlVars, chVars, keyVars, cwVars, csVars, cacheConfig, caServed, caLoad>>

\* WriteThrough.Apply: if cw.status == http.StatusOK { Store }; the error is dropped.
WTStore(w) ==
    /\ caReq[w].pc = "wtstore"
    /\ IF caReq[w].cw.status = StatusOK
       THEN \E fault \in StoreFaults :
              LET response == CachedResponse(caReq[w].cw.status, caReq[w].w.header,
                                             caReq[w].cw.body)
              IN /\ cacheStore' = IF fault = "none"
                                  THEN StoreFor(w, cacheStore, caReq[w].key, response,
                                                cacheConfig.cache.TTL)
                                  ELSE cacheStore
                 /\ caReq' = [caReq EXCEPT
                        ![w].pc = "done",
                        ![w].storeCalls = @ + 1,
                        ![w].storeArgs = <<caReq[w].key, response>>,
                        ![w].stored = IF fault = "none" THEN "ok" ELSE "error",
                        ![w].w = IF fault = "none" THEN @ ELSE AfterStoreError(@)]
       ELSE /\ cacheStore' = cacheStore
            /\ caReq' = [caReq EXCEPT ![w].pc = "done"]
    /\ UNCHANGED <<now, horizon, cbVars, rlVars, chVars, keyVars, cwVars, csVars, cacheConfig, caServed, caLoad>>

\* RedisCache.Invalidate(ctx, key) is called on a key the store holds.  (No
\* interceptor calls it: it is a method of the Cache interface for other callers.)
CacheInvalidate ==
    /\ \E key \in DOMAIN cacheStore, fault \in FetchFaults \ {"decode"} :
         /\ cacheStore[key].present
         /\ cacheStore' = Invalidate(cacheStore, key, fault)
    /\ UNCHANGED <<now, horizon, cbVars, rlVars, chVars, keyVars, cwVars, csVars, cacheConfig, caReq,
                   caServed, caLoad>>

(***************************************************************************)
(* CacheResponseWriter on its own: any sequence of Write and WriteHeader   *)
(* calls made by a handler.                                                *)
(***************************************************************************)
WriterChunks == {"a", "bc"}
WriterStatuses == {StatusOK, StatusNotFound, StatusInternalServerError}

InitWriter ==
    /\ cwObj = NewCacheResponseWriter(NewWriter)
    /\ cwLog = <<>>

\* cw.Write(b)
CwCallWrite ==
    /\ Len(cwLog) < MaxWriterCalls
    /\ \E b \in WriterChunks :
         /\ cwObj' = CwWrite(cwObj, b)
         /\ cwLog' = Append(cwLog, [op |-> "Write", arg |-> b])
    /\ UNCHANGED <<now, horizon, cbVars, rlVars, chVars, keyVars, caVars, csVars>>

\* cw.WriteHeader(status)
CwCallWriteHeader ==
    /\ Len(cwLog) < MaxWriterCalls
    /\ \E status \in WriterStatuses :
         /\ cwObj' = CwWriteHeader(cwObj, status)
         /\ cwLog' = Append(cwLog, [op |-> "WriteHeader", arg |-> status])
    /\ UNCHANGED <<now, horizon, cbVars, rlVars, chVars, keyVars, caVars, csVars>>

(***************************************************************************)
(* ContactService over ContactRepo.  The "contacts" collection is the      *)
(* sequence of its documents in insertion order.  A document is a Contact  *)
(* as the driver writes it: the embedded BaseModel, which has no inline    *)
(* tag, is the sub-document "basemodel" that holds the id, and the email   *)
(* is the sub-document of a sql.NullString.  A filter names top-level      *)
(* fields; FindOne and DeleteOne act on the first document that matches.   *)
(* A repository call succeeds or returns an error.                         *)
(***************************************************************************)
Emails == {"a@x.io", "b@x.io"}

\* The ids a caller gives a contact; 0 is the id of the zero Contact.
Ids == {0, 1}

\* The contacts handed to the service: id, email, and whether Validate accepts it.
ContactInputs == [id : Ids, email : Emails, valid : BOOLEAN]

NoContact == [id |-> 0, email |-> "", valid |-> FALSE]

DbFaults == {"none", "err"}

CsIdle == [pc |-> "idle", batch |-> <<>>, id |-> 0, seen |-> "", todo |-> {}, existing |-> {},
           i |-> 0, result |-> "none", added |-> 0]

\* The calls a load makes: concurrent CreateContact calls alone, or together with
\* UpdateContact and DeleteContact; one caller of BulkCreateContacts, alone or
\* followed by updates and deletes.
CreateLoad == [goroutines |-> Workers, requests |-> MaxContactCalls, ops |-> {"create"}]
EditLoad ==
    [goroutines |-> Workers, requests |-> MaxContactCalls, ops |-> {"create", "update", "delete"}]
BulkLoad == [goroutines |-> {1}, requests |-> MaxContactCalls, ops |-> {"bulk"}]
BulkEditLoad ==
    [goroutines |-> {1}, requests |-> MaxContactCalls, ops |-> {"bulk", "update", "delete"}]

\* NewContactService(repo) over an empty collection.
NewContactService(load) ==
    /\ contacts = <<>>
    /\ csReq = [w \in Workers |-> CsIdle]
    /\ csServed = 0
    /\ csLoad = load

InitContacts == \E load \in {CreateLoad, EditLoad} : NewContactService(load)

InitBulk == \E load \in {BulkLoad, BulkEditLoad} : NewContactService(load)

\* The emails of a batch, and whether one occurs twice in it.
BatchEmails(batch) == {batch[k].email : k \in 1..Len(batch)}

HasDuplicate(batch) ==
    \E j, k \in 1..Len(batch) : j < k /\ batch[j].email = batch[k].email

\* A value as the driver writes it in a document or a filter: a Go string is a
\* BSON string, a sql.NullString (a struct with the fields String and Valid) is a
\* sub-document.  A filter value equals a field when both the type and the content
\* are equal.
BsonString(s) == [type |-> "string", String |-> s]

BsonNullString(s) == [type |-> "document", String |-> s]

\* The documents of the contacts that have an email.
WithEmail(coll, email) == {k \in DOMAIN coll : coll[k].email.String = email}

\* A Contact as the driver writes it.
Document(c) == [basemodel |-> [id |-> c.id], email |-> BsonNullString(c.email)]

\* The filter {"id": id}: the document has a top-level field id with that value.
IdIs(doc, id) == "id" \in DOMAIN doc /\ doc.id = id

\* The first document that {"id": id} matches (0: none).
FirstWithId(coll, id) ==
    IF \E k \in DOMAIN coll : IdIs(coll[k], id)
    THEN CHOOSE k \in DOMAIN coll : IdIs(coll[k], id) /\ \A j \in 1..(k - 1) : ~IdIs(coll[j], id)
    ELSE 0

\* repo.FindContacts(ctx, filter, 1, 0): how many documents come back for a filter
\* on the email being the value given (contact.Email in CreateContact and
\* UpdateContact, the string key of the emails map in BulkCreateContacts) and, in
\* UpdateContact, on "id": {"$ne": id} for the id of `except`, which a document
\* without such a field satisfies.
FindContacts(coll, email, except) ==
    IF \E k \in DOMAIN coll : coll[k].email = email /\ \A id \in except : ~IdIs(coll[k], id)
    THEN 1 ELSE 0

\* repo.GetContact(ctx, id): FindOne decodes the first match; without one it
\* returns the zero Contact and ErrNoDocuments.
GetContact(coll, id) ==
    LET k == FirstWithId(coll, id)
    IN IF k = 0 THEN [contact |-> NoContact, err |-> TRUE]
       ELSE [contact |-> [id |-> coll[k].basemodel.id, email |-> coll[k].email.String,
                          valid |-> TRUE],
             err |-> FALSE]

\* repo.CreateContact(ctx, contact): InsertOne adds a document.
InsertOne(coll, c) == Append(coll, Document(c))

\* repo.UpdateContact(ctx, contact): UpdateOne on {"id": contact.ID} with the
\* contact itself as the update.  The driver refuses an update document that has
\* no operator key ($set, ...): an error, and the collection as it was.
UpdateOne(coll, c) == [coll |-> coll, err |-> TRUE]

\* repo.DeleteContact(ctx, id): DeleteOne on {"id": id}; nil when nothing matches.
DeleteOne(coll, id) ==
    LET k == FirstWithId(coll, id)
    IN IF k = 0 THEN coll ELSE SubSeq(coll, 1, k - 1) \o SubSeq(coll, k + 1, Len(coll))

\* A call returns: its result, and how many documents it has inserted; its locals
\* are gone.
Return(call, result) ==
    [CsIdle EXCEPT !.pc = "done", !.result = result, !.added = call.added]

\* Goroutine w is free to make a call of the service that the load holds.
CanCall(w, op) ==
    /\ w \in csLoad.goroutines
    /\ op \in csLoad.ops
    /\ csReq[w].pc \in {"idle", "done"}
    /\ FirstFree(w, csReq)
    /\ csServed < csLoad.requests

\* CreateContact(ctx, contact) is called.
CSArrive(w) ==
    /\ CanCall(w, "create")
    /\ csServed' = csServed + 1
    /\ \E c \in ContactInputs :
         csReq' = [csReq EXCEPT ![w] = [CsIdle EXCEPT !.pc = "validate", !.batch = <<c>>]]
    /\ UNCHANGED <<now, horizon, cbVars, rlVars, chVars, keyVars, caVars, cwVars, contacts, csLoad>>

\* if err := contact.Validate(); err != nil { return ErrInvalidContact }
CSValidate(w) ==
    /\ csReq[w].pc = "validate"
    /\ csReq' = [csReq EXCEPT ![w] =
                   IF csReq[w].batch[1].valid
                   THEN [@ EXCEPT !.pc = "find"]
                   ELSE Return(@, "ErrInvalidContact")]
    /\ UNCHANGED <<now, horizon, cbVars, rlVars, chVars, keyVars, caVars, cwVars, contacts, csServed, csLoad>>

\* existingContacts, err := s.repo.FindContacts(...); the two returns after it.
CSFind(w) ==
    /\ csReq[w].pc = "find"
    /\ \E fault \in DbFaults :
         csReq' = [csReq EXCEPT ![w] =
                     IF fault = "err"
                     THEN Return(@, "error")
                     ELSE IF FindContacts(contacts, BsonNullString(csReq[w].batch[1].email), {}) > 0
                     THEN Return(@, "ErrEmailAlreadyExists")
                     ELSE [@ EXCEPT !.pc = "create"]]
    /\ UNCHANGED <<now, horizon, cbVars, rlVars, chVars, keyVars, caVars, cwVars, contacts, csServed, csLoad>>

\* return s.repo.CreateContact(ctx, contact)
CSCreate(w) ==
    /\ csReq[w].pc = "create"
    /\ \E fault \in DbFaults :
         IF fault = "err"
         THEN /\ contacts' = contacts
              /\ csReq' = [csReq EXCEPT ![w] = Return(@, "error")]
         ELSE /\ contacts' = InsertOne(contacts, csReq[w].batch[1])
              /\ csReq' = [csReq EXCEPT ![w] = Return([@ EXCEPT !.added = @ + 1], "nil")]
    /\ UNCHANGED <<now, horizon, cbVars, rlVars, chVars, keyVars, caVars, cwVars, csServed, csLoad>>

\* UpdateContact(ctx, contact) is called.
UpdateArrive(w) ==
    /\ CanCall(w, "update")
    /\ csServed' = csServed + 1
    /\ \E c \in ContactInputs :
         csReq' = [csReq EXCEPT ![w] = [CsIdle EXCEPT !.pc = "uvalidate", !.batch = <<c>>]]
    /\ UNCHANGED <<now, horizon, cbVars, rlVars, chVars, keyVars, caVars, cwVars, contacts, csLoad>>

\* if err := contact.Validate(); err != nil { return ErrInvalidContact }
UpdateValidate(w) ==
    /\ csReq[w].pc = "uvalidate"
    /\ csReq' = [csReq EXCEPT ![w] =
                   IF csReq[w].batch[1].valid
                   THEN [@ EXCEPT !.pc = "uget"]
                   ELSE Return(@, "ErrInvalidContact")]
    /\ UNCHANGED <<now, horizon, cbVars, rlVars, chVars, keyVars, caVars, cwVars, contacts, csServed, csLoad>>

\* existingContact, err := s.repo.GetContact(ctx, contact.ID); the two returns
\* after it, and the comparison of the emails.
UpdateGet(w) ==
    /\ csReq[w].pc = "uget"
    /\ \E fault \in DbFaults :
         LET c == csReq[w].batch[1]
             got == GetContact(contacts, c.id)
         IN csReq' = [csReq EXCEPT ![w] =
                        IF fault = "err" \/ got.err
                        THEN Return(@, "error")
                        ELSE IF got.contact.id = 0
                        THEN Return(@, "ErrContactNotFound")
                        ELSE IF c.email # got.contact.email
                        THEN [@ EXCEPT !.pc = "ufind", !.seen = got.contact.email]
                        ELSE [@ EXCEPT !.pc = "uwrite", !.seen = got.contact.email]]
    /\ UNCHANGED <<now, horizon, cbVars, rlVars, chVars, keyVars, caVars, cwVars, contacts, csServed, csLoad>>

\* FindContacts on the new email and "id": {"$ne": contact.ID}.  (GetContact finds
\* no document the service has stored, so UpdateContact returns before this call.)
UpdateFind(w) ==
    /\ csReq[w].pc = "ufind"
    /\ \E fault \in DbFaults :
         LET c == csReq[w].batch[1]
         IN csReq' = [csReq EXCEPT ![w] =
                        IF fault = "err"
                        THEN Return(@, "error")
                        ELSE IF FindContacts(contacts, BsonNullString(c.email), {c.id}) > 0
                        THEN Return(@, "ErrEmailAlreadyExists")
                        ELSE [@ EXCEPT !.pc = "uwrite"]]
    /\ UNCHANGED <<now, horizon, cbVars, rlVars, chVars, keyVars, caVars, cwVars, contacts, csServed, csLoad>>

\* return s.repo.UpdateContact(ctx, contact).  (Not reached, as UpdateFind.)
UpdateWrite(w) ==
    /\ csReq[w].pc = "uwrite"
    /\ \E fault \in DbFaults :
         LET res == UpdateOne(contacts, csReq[w].batch[1])
         IN IF fault = "err"
            THEN /\ contacts' = contacts
                 /\ csReq' = [csReq EXCEPT ![w] = Return(@, "error")]
            ELSE /\ contacts' = res.coll
                 /\ csReq' = [csReq EXCEPT ![w] = Return(@, IF res.err THEN "error" ELSE "nil")]
    /\ UNCHANGED <<now, horizon, cbVars, rlVars, chVars, keyVars, caVars, cwVars, csServed, csLoad>>

\* DeleteContact(ctx, id) is called.
DeleteArrive(w) ==
    /\ CanCall(w, "delete")
    /\ csServed' = csServed + 1
    /\ \E id \in Ids :
         csReq' = [csReq EXCEPT ![w] = [CsIdle EXCEPT !.pc = "dget", !.id = id]]
    /\ UNCHANGED <<now, horizon, cbVars, rlVars, chVars, keyVars, caVars, cwVars, contacts, csLoad>>

\* contact, err := s.repo.GetContact(ctx, id); the two returns after it.
DeleteGet(w) ==
    /\ csReq[w].pc = "dget"
    /\ \E fault \in DbFaults :
         LET got == GetContact(contacts, csReq[w].id)
         IN csReq' = [csReq EXCEPT ![w] =
                        IF fault = "err" \/ got.err
                        THEN Return(@, "error")
                        ELSE IF got.contact.id = 0
                        THEN Return(@, "ErrContactNotFound")
                        ELSE [@ EXCEPT !.pc = "dwrite", !.seen = got.contact.email]]
    /\ UNCHANGED <<now, horizon, cbVars, rlVars, chVars, keyVars, caVars, cwVars, contacts, csServed, csLoad>>

\* return s.repo.DeleteContact(ctx, id).  (GetContact finds no document the service
\* has stored, so DeleteContact returns before this call.)
DeleteWrite(w) ==
    /\ csReq[w].pc = "dwrite"
    /\ \E fault \in DbFaults :
         IF fault = "err"
         THEN /\ contacts' = contacts
              /\ csReq' = [csReq EXCEPT ![w] = Return(@, "error")]
         ELSE /\ contacts' = DeleteOne(contacts, csReq[w].id)
              /\ csReq' = [csReq EXCEPT ![w] = Return(@, "nil")]
    /\ UNCHANGED <<now, horizon, cbVars, rlVars, chVars, keyVars, caVars, cwVars, csServed, csLoad>>

\* BulkCreateContacts(ctx, contacts) is called.
BulkArrive(w) ==
    /\ CanCall(w, "bulk")
    /\ csServed' = csServed + 1
    /\ \E batch \in SeqsUpTo(ContactInputs, MaxBatch) :
         csReq' = [csReq EXCEPT ![w] = [CsIdle EXCEPT !.pc = "bvalidate", !.batch = batch]]
    /\ UNCHANGED <<now, horizon, cbVars, rlVars, chVars, keyVars, caVars, cwVars, contacts, csLoad>>

\* The two loops over the batch: Validate every contact, then look for an email
\* that occurs twice.
BulkValidate(w) ==
    /\ csReq[w].pc = "bvalidate"
    /\ LET batch == csReq[w].batch
       IN csReq' = [csReq EXCEPT ![w] =
                      IF \E k \in 1..Len(batch) : ~batch[k].valid
                      THEN Return(@, "ErrInvalidContact")
                      ELSE IF HasDuplicate(batch)
                      THEN Return(@, "ErrEmailAlreadyExists")
                      ELSE [@ EXCEPT !.pc = "bfind", !.todo = BatchEmails(batch)]]
    /\ UNCHANGED <<now, horizon, cbVars, rlVars, chVars, keyVars, caVars, cwVars, contacts, csServed, csLoad>>

\* for email := range emails { FindContacts ... }: one email of the map, in the
\* order the map iteration yields.
BulkFind(w) ==
    /\ csReq[w].pc = "bfind"
    /\ csReq[w].todo # {}
    /\ \E e \in csReq[w].todo, fault \in DbFaults :
         csReq' = [csReq EXCEPT ![w] =
                     IF fault = "err"
                     THEN Return(@, "error")
                     ELSE [@ EXCEPT !.todo = @ \ {e},
                                    !.existing = IF FindContacts(contacts, BsonString(e), {}) > 0
                                                 THEN @ \cup {e} ELSE @]]
    /\ UNCHANGED <<now, horizon, cbVars, rlVars, chVars, keyVars, caVars, cwVars, contacts, csServed, csLoad>>

\* if len(existingEmails) > 0 { return ErrEmailAlreadyExists }; the timestamps.
BulkChecked(w) ==
    /\ csReq[w].pc = "bfind"
    /\ csReq[w].todo = {}
    /\ csReq' = [csReq EXCEPT ![w] =
                   IF csReq[w].existing # {}
                   THEN Return(@, "ErrEmailAlreadyExists")
                   ELSE [@ EXCEPT !.pc = "bcreate", !.i = 1]]
    /\ UNCHANGED <<now, horizon, cbVars, rlVars, chVars, keyVars, caVars, cwVars, contacts, csServed, csLoad>>

\* for _, contact := range contacts { if err := s.repo.CreateContact(...) ... }
BulkCreate(w) ==
    /\ csReq[w].pc = "bcreate"
    /\ csReq[w].i <= Len(csReq[w].batch)
    /\ \E fault \in DbFaults :
         IF fault = "err"
         THEN /\ contacts' = contacts
              /\ csReq' = [csReq EXCEPT ![w] = Return(@, "error")]
         ELSE /\ contacts' = InsertOne(contacts, csReq[w].batch[csReq[w].i])
              /\ csReq' = [csReq EXCEPT ![w].i = @ + 1, ![w].added = @ + 1]
    /\ UNCHANGED <<now, horizon, cbVars, rlVars, chVars, keyVars, caVars, cwVars, csServed, csLoad>>

\* return nil
BulkReturn(w) ==
    /\ csReq[w].pc = "bcreate"
    /\ csReq[w].i > Len(csReq[w].batch)
    /\ csReq' = [csReq EXCEPT ![w] = Return(@, "nil")]
    /\ UNCHANGED <<now, horizon, cbVars, rlVars, chVars, keyVars, caVars, cwVars, contacts, csServed, csLoad>>

(***************************************************************************)
(* Specifications.                                                         *)
(***************************************************************************)
InitClock(until) == now = 0 /\ horizon = until

\* A component that takes no part in a specification stays as constructed.
IdleCB ==
    /\ failureThreshold = 1
    /\ resetTimeout = 1
    /\ cbLoad = 0
    /\ failures = 0
    /\ lastFailure = ZeroTime
    /\ cbReaders = {}
    /\ cbReq = [w \in Workers |-> CbIdle]
    /\ cbServed = 0
    /\ cbHist = NoHist

IdleRL == InitRL

IdleChain ==
    /\ middlewares = <<>>
    /\ chPc = "idle"
    /\ chI = 0
    /\ chLast = <<>>
    /\ chDecide = <<>>
    /\ chTrace = <<>>
    /\ chResp = <<>>
    /\ chServed = 0

IdleKey ==
    /\ ignoreParams = {}
    /\ kReq = <<>>
    /\ kKey = <<>>

IdleCache ==
    /\ cacheConfig = WithCache([TTL |-> 0, KeyPrefix |-> KeyPrefix, IgnoreParams |-> {},
                                ExcludePaths |-> <<>>, InvalidateOn |-> {}], "CacheAside")
    /\ cacheStore = <<>>
    /\ caReq = [w \in Workers |-> CaIdle]
    /\ caServed = 0
    /\ caLoad = SerialCacheLoad

IdleWriter ==
    /\ cwObj = NewCacheResponseWriter(NewWriter)
    /\ cwLog = <<>>

IdleContacts == NewContactService(BulkLoad)

InitSpecCB == InitClock(MaxTime) /\ InitCB /\ IdleRL /\ IdleChain /\ IdleKey /\ IdleCache /\ IdleWriter /\ IdleContacts

InitSpecRL == InitClock(MaxRlTime) /\ IdleCB /\ InitRL /\ IdleChain /\ IdleKey /\ IdleCache /\ IdleWriter /\ IdleContacts

InitSpecBucket == InitClock(MaxRlTime) /\ IdleCB /\ InitRLOneKey /\ IdleChain /\ IdleKey /\ IdleCache /\ IdleWriter /\ IdleContacts

InitSpecRLConc == InitClock(MaxRlTime) /\ IdleCB /\ InitRLConc /\ IdleChain /\ IdleKey /\ IdleCache /\ IdleWriter /\ IdleContacts

InitSpecChain == InitClock(0) /\ IdleCB /\ IdleRL /\ InitChain /\ IdleKey /\ IdleCache /\ IdleWriter /\ IdleContacts

InitSpecKey == InitClock(0) /\ IdleCB /\ IdleRL /\ IdleChain /\ InitKey /\ IdleCache /\ IdleWriter /\ IdleContacts

InitSpecKeyBound == InitClock(0) /\ IdleCB /\ IdleRL /\ IdleChain /\ InitKeyBound /\ IdleCache /\ IdleWriter /\ IdleContacts

InitSpecCache == InitClock(MaxCacheTime) /\ IdleCB /\ IdleRL /\ IdleChain /\ IdleKey /\ InitCache /\ IdleWriter /\ IdleContacts

InitSpecCacheConc == InitClock(0) /\ IdleCB /\ IdleRL /\ IdleChain /\ IdleKey /\ InitCacheConc /\ IdleWriter /\ IdleContacts

InitSpecCacheShort == InitClock(0) /\ IdleCB /\ IdleRL /\ IdleChain /\ IdleKey /\ InitCacheShort /\ IdleWriter /\ IdleContacts

InitSpecCacheTTL == InitClock(0) /\ IdleCB /\ IdleRL /\ IdleChain /\ IdleKey /\ InitCacheTTL /\ IdleWriter /\ IdleContacts

NextCB ==
    \/ Tick
    \/ \E w \in Workers : CBArrive(w)
    \/ \E w \in Workers : CBRLock(w)
    \/ \E w \in Workers : CBCheck(w)
    \/ \E w \in Workers : CBReset(w)
    \/ \E w \in Workers : CBRUnlock(w)
    \/ \E w \in Workers : CBReject(w)
    \/ \E w \in Workers : CBCallNext(w)
    \/ \E w \in Workers : CBOriginReturn(w)

SpecCB == InitSpecCB /\ [][NextCB]_vars

NextRL ==
    \/ Tick
    \/ \E w \in Workers : RLArrive(w)
    \/ \E w \in Workers : RLLock(w)
    \/ \E w \in Workers : RLLookup(w)
    \/ \E w \in Workers : RLCreate(w)
    \/ \E w \in Workers : RLUnlock(w)
    \/ \E w \in Workers : RLAllow(w)
    \/ \E w \in Workers : RLOriginReturn(w)

SpecRL == InitSpecRL /\ [][NextRL]_vars

SpecRLConc == InitSpecRLConc /\ [][NextRL]_vars

\* One client address sending request after request.
SpecBucket == InitSpecBucket /\ [][NextRL]_vars

NextChain ==
    \/ ChainArrive
    \/ ChainWrap
    \/ ChainCall
    \/ ChainInvoke
    \/ ChainFinal
    \/ ChainFinish

SpecChain == InitSpecChain /\ [][NextChain]_vars

NextKey == KeyDerive

SpecKey == InitSpecKey /\ [][NextKey]_vars

\* Key derivation around the length limit.
SpecKeyBound == InitSpecKeyBound /\ [][NextKey]_vars

NextCache ==
    \/ Tick
    \/ \E w \in Workers : CacheArrive(w)
    \/ \E w \in Workers : CachePass(w)
    \/ \E w \in Workers : CacheFetch(w)
    \/ \E w \in Workers : CacheOrigin(w)
    \/ \E w \in Workers : CacheStore(w)
    \/ \E w \in Workers : WTOrigin(w)
    \/ \E w \in Workers : WTStore(w)
    \/ CacheInvalidate

SpecCache == InitSpecCache /\ [][NextCache]_vars

NextCacheConc ==
    \/ \E w \in Workers : CacheArrive(w)
    \/ \E w \in Workers : CacheFetch(w)
    \/ \E w \in Workers : CacheOrigin(w)
    \/ \E w \in Workers : CacheStore(w)
    \/ CacheInvalidate

SpecCacheConc == InitSpecCacheConc /\ [][NextCacheConc]_vars

NextCacheServe ==
    \/ \E w \in Workers : CacheArrive(w)
    \/ \E w \in Workers : CachePass(w)
    \/ \E w \in Workers : CacheFetch(w)
    \/ \E w \in Workers : CacheOrigin(w)
    \/ \E w \in Workers : CacheStore(w)
    \/ \E w \in Workers : WTOrigin(w)
    \/ \E w \in Workers : WTStore(w)
    \/ CacheInvalidate

\* The cache interceptor serving a few requests of any kind, the clock standing.
SpecCacheShort == InitSpecCacheShort /\ [][NextCacheServe]_vars

\* The cache interceptor under each kind of configured TTL.
SpecCacheTTL == InitSpecCacheTTL /\ [][NextCacheConc]_vars

\* The loads under which the two lock holders are observed: each one alone under
\* its full concurrent load (the breaker and the limiter registry share no state),
\* and both together under a light load.
LockLoads ==
    { [cb |-> MaxCbRequests, rl |-> NoLoad],
      [cb |-> 0, rl |-> ConcurrentLoad],
      [cb |-> MaxLockRequests, rl |-> LightLoad] }

\* The breaker has a threshold that makes it open or reset at once.
InitSpecLocks ==
    /\ InitClock(0)
    /\ \E load \in LockLoads :
          /\ NewCircuitBreaker({0}, load.cb)
          /\ NewRateLimiter
          /\ rlLoad = load.rl
    /\ IdleChain /\ IdleKey /\ IdleCache /\ IdleWriter /\ IdleContacts

NextLocks ==
    \/ \E w \in Workers : CBArrive(w)
    \/ \E w \in Workers : CBRLock(w)
    \/ \E w \in Workers : CBCheck(w)
    \/ \E w \in Workers : CBReset(w)
    \/ \E w \in Workers : CBRUnlock(w)
    \/ \E w \in Workers : CBReject(w)
    \/ \E w \in Workers : CBCallNext(w)
    \/ \E w \in Workers : CBOriginReturn(w)
    \/ \E w \in Workers : RLArrive(w)
    \/ \E w \in Workers : RLLock(w)
    \/ \E w \in Workers : RLLookup(w)
    \/ \E w \in Workers : RLCreate(w)
    \/ \E w \in Workers : RLUnlock(w)
    \/ \E w \in Workers : RLAllow(w)
    \/ \E w \in Workers : RLOriginReturn(w)

SpecLocks == InitSpecLocks /\ [][NextLocks]_vars

InitSpecWriter ==
    InitClock(0) /\ IdleCB /\ IdleRL /\ IdleChain /\ IdleKey /\ IdleCache /\ InitWriter /\ IdleContacts

NextWriter ==
    \/ CwCallWrite
    \/ CwCallWriteHeader

SpecWriter == InitSpecWriter /\ [][NextWriter]_vars

InitSpecContacts ==
    /\ InitClock(0) /\ IdleCB /\ IdleRL /\ IdleChain /\ IdleKey /\ IdleCache /\ IdleWriter
    /\ InitContacts

NextContacts ==
    \/ \E w \in Workers : CSArrive(w)
    \/ \E w \in Workers : CSValidate(w)
    \/ \E w \in Workers : CSFind(w)
    \/ \E w \in Workers : CSCreate(w)
    \/ \E w \in Workers : UpdateArrive(w)
    \/ \E w \in Workers : UpdateValidate(w)
    \/ \E w \in Workers : UpdateGet(w)
    \/ \E w \in Workers : DeleteArrive(w)
    \/ \E w \in Workers : DeleteGet(w)

\* Concurrent calls of ContactService.CreateContact, alone or among calls of
\* UpdateContact and DeleteContact.
\* (UpdateFind, UpdateWrite and DeleteWrite are steps no call reaches.)
SpecContacts == InitSpecContacts /\ [][NextContacts]_vars

InitSpecBulk ==
    /\ InitClock(0) /\ IdleCB /\ IdleRL /\ IdleChain /\ IdleKey /\ IdleCache /\ IdleWriter
    /\ InitBulk

NextBulk ==
    \/ \E w \in Workers : BulkArrive(w)
    \/ \E w \in Workers : BulkValidate(w)
    \/ \E w \in Workers : BulkFind(w)
    \/ \E w \in Workers : BulkChecked(w)
    \/ \E w \in Workers : BulkCreate(w)
    \/ \E w \in Workers : BulkReturn(w)
    \/ \E w \in Workers : UpdateArrive(w)
    \/ \E w \in Workers : UpdateValidate(w)
    \/ \E w \in Workers : UpdateGet(w)
    \/ \E w \in Workers : DeleteArrive(w)
    \/ \E w \in Workers : DeleteGet(w)

\* Calls of ContactService.BulkCreateContacts, one after the other, alone or among
\* calls of UpdateContact and DeleteContact.
SpecBulk == InitSpecBulk /\ [][NextBulk]_vars

Spec == SpecCB

(***************************************************************************)
(* Claims about the circuit breaker.                                       *)
(***************************************************************************)
CbRejected(w) == cbReq[w].status = StatusServiceUnavailable /\ cbReq[w].nextCalls = 0

\* C1: with threshold F >= 1, a request that arrives after F consecutive origin
\* failures and within the reset timeout of the last one is answered 503 and the
\* origin handler is not invoked for it.
C1_OpensAfterThresholdFailures ==
    \A w \in Workers :
        (cbReq[w].pc = "done" /\ cbReq[w].tripDue) => CbRejected(w)

\* C2: a request is answered 503 without invoking the next handler if and only if
\* isOpen saw failures >= failureThreshold and an elapsed time since lastFailure not
\* greater than resetTimeout; in every other case the next handler is invoked exactly
\* once (and never more than once while the request is in flight).
C2_RejectsIffOpen ==
    \A w \in Workers :
        /\ cbReq[w].nextCalls <= 1
        /\ cbReq[w].pc = "done" =>
             LET blocked == /\ cbReq[w].seenFailures >= failureThreshold
                            /\ cbReq[w].seenElapsed <= resetTimeout
             IN /\ CbRejected(w) <=> blocked
                /\ cbReq[w].status = StatusServiceUnavailable <=> blocked
                /\ ~blocked => cbReq[w].nextCalls = 1

C2_Witness ==
    \E w \in Workers :
        /\ cbReq[w].pc = "done" /\ CbRejected(w)
        /\ cbReq[w].seenFailures >= failureThreshold
        /\ cbReq[w].seenElapsed <= resetTimeout

\* C3: failures and lastFailure change only in a step of a request that is inside
\* isOpen (never in a clock step); a call that finds failures >= threshold and more
\* than resetTimeout elapsed takes the reset branch, which sets failures to 0 and
\* reports the breaker closed, and the call is then passed to the next handler.
C3_LazySelfHeal ==
    [][ /\ (failures' # failures \/ lastFailure' # lastFailure)
            => (now' = now /\ \E w \in Workers :
                    cbReq[w].pc \in {"check", "reset"} /\ cbReq'[w].pc # cbReq[w].pc)
        /\ \A w \in Workers :
            /\ ( /\ cbReq[w].pc = "check" /\ cbReq'[w].pc # "check"
                 /\ failures >= failureThreshold
                 /\ Since(lastFailure) > resetTimeout )
               => cbReq'[w].pc = "reset"
            /\ (cbReq[w].pc = "reset" /\ cbReq'[w].pc # "reset")
               => (failures' = 0 /\ ~cbReq'[w].open)
            /\ (cbReq[w].viaReset /\ cbReq[w].pc = "decided" /\ cbReq'[w].pc # "decided")
               => (cbReq'[w].pc = "origin" /\ cbReq'[w].nextCalls = 1)
      ]_vars

C3_Witness ==
    \E w \in Workers :
        /\ cbReq[w].viaReset /\ cbReq[w].pc = "origin"
        /\ cbReq[w].seenFailures >= failureThreshold
        /\ cbReq[w].seenElapsed > resetTimeout
        /\ failures = 0 /\ now > 0

\* C4: after the reset branch has closed the breaker, the trial request decides the
\* next state: if its origin call failed, a request arriving within the reset timeout
\* of that failure is rejected with 503; if it succeeded, the next request is let
\* through.
C4_TrialDecidesNextState ==
    \A w \in Workers :
        cbReq[w].pc = "done" =>
            /\ cbReq[w].trialSeen = "failed" => CbRejected(w)
            /\ cbReq[w].trialSeen = "ok" => cbReq[w].nextCalls = 1

(***************************************************************************)
(* Claims about the rate limiter.                                          *)
(***************************************************************************)
\* The step in which goroutine w calls limiter.Allow() and acts on the answer.
RlAllowStep(w) == rlReq[w].pc = "allow" /\ rlReq'[w].pc # "allow"

RlPassed(w) == rlReq'[w].pc = "origin" /\ rlReq'[w].nextCalls = 1 /\ rlReq'[w].status = 0

RlRefused(w) ==
    /\ rlReq'[w].pc = "done"
    /\ rlReq'[w].nextCalls = 0
    /\ rlReq'[w].status = StatusTooManyRequests

\* C5: while less than one token has been refilled since the key's limiter was
\* created, the first Burst = 10 requests of the key are passed to the next handler
\* and the 11th is answered 429 without invoking the next handler.
C5_BurstThenReject ==
    [][ \A w \in Workers :
          ( /\ RlAllowStep(w)
            /\ now - rlObs[rlReq[w].key].created < TicksPerToken )
          => /\ rlObs[rlReq[w].key].calls < Burst => RlPassed(w)
             /\ rlObs[rlReq[w].key].calls = Burst => RlRefused(w)
      ]_vars

C5_Witness ==
    \E w \in Workers :
        /\ rlReq[w].pc = "done" /\ rlReq[w].status = StatusTooManyRequests
        /\ rlReq[w].nextCalls = 0
        /\ rlObs[rlReq[w].key].calls = Burst + 1
        /\ now - rlObs[rlReq[w].key].created < TicksPerToken
        /\ now > 0

\* C6: under every interleaving of getLimiter calls, at most one limiter is created
\* per key, every call returns the instance registered for its key (the first one
\* created for it), and a registry entry, once present, is never removed or replaced.
C6_OneInstance ==
    /\ \A k \in Keys : rlObs[k].made <= 1
    /\ \A w \in Workers :
         rlReq[w].pc \in {"allow"} =>
            /\ rlReq[w].limiter # 0
            /\ rlReq[w].limiter = limiters[rlReq[w].key]
            /\ rlReq[w].limiter = rlObs[rlReq[w].key].first

C6_OneLimiterPerKey ==
    /\ C6_OneInstance
    /\ [][ /\ C6_OneInstance'
           /\ \A k \in Keys : limiters[k] # 0 => limiters'[k] = limiters[k]
       ]_vars

C6_Witness ==
    \E w, v \in Workers :
        /\ w # v
        /\ rlReq[w].key = rlReq[v].key
        /\ rlReq[w].early /\ rlReq[v].early
        /\ rlReq[w].pc = "allow" /\ rlReq[v].pc = "allow"
        /\ rlReq[w].limiter = rlReq[v].limiter
        /\ rlObs[rlReq[w].key].made = 1

\* C7: the outcome of a request for key A is the outcome that the bucket fed by
\* A's Allow calls alone gives at that time, whatever requests other keys have made.
C7_PerKeyIndependence ==
    [][ \A w \in Workers :
          RlAllowStep(w) =>
             IF AllowOk([tokens |-> rlObs[rlReq[w].key].tokens,
                         last |-> rlObs[rlReq[w].key].last], now)
             THEN RlPassed(w)
             ELSE RlRefused(w)
      ]_vars

C7_Witness ==
    \E w \in Workers, b \in Keys :
        /\ rlReq[w].pc = "origin" /\ rlReq[w].key # b
        /\ rlObs[b].calls >= Burst /\ rlObs[b].tokens < OneToken
        /\ rlObs[rlReq[w].key].calls = 1

(***************************************************************************)
(* Claims about Chain.                                                     *)
(***************************************************************************)
\* The interceptors m1..mn in construction order, then final (0).
FullOrder(n) == [i \in 1..(n + 1) |-> IF i <= n THEN i ELSE 0]

IsPrefix(p, q) == Len(p) <= Len(q) /\ \A i \in 1..Len(p) : p[i] = q[i]

AllForward == \A i \in 1..Len(middlewares) : chDecide[i] = "forward"

\* The first interceptor that does not call its next handler (0: none).
FirstReject ==
    IF AllForward THEN 0
    ELSE CHOOSE i \in 1..Len(middlewares) :
            /\ chDecide[i] = "reject"
            /\ \A j \in 1..(i - 1) : chDecide[j] = "forward"

RECURSIVE WritesUpTo(_)
WritesUpTo(i) ==
    IF i = 0 THEN <<>> ELSE WritesUpTo(i - 1) \o Writes(middlewares, chDecide, i)

\* C8: when every interceptor forwards, a request enters m1, m2, ..., mn and then
\* final, each exactly once, in that order, for every request; with n = 0 it goes
\* straight to final.
C8_ConstructionOrder ==
    (chPc \in {"run", "done"} /\ AllForward) =>
        /\ IsPrefix(chTrace, FullOrder(Len(middlewares)))
        /\ chPc = "done" => chTrace = FullOrder(Len(middlewares))

C8_Witness ==
    /\ chPc = "done" /\ AllForward /\ chServed = 2
    /\ Len(middlewares) = 3
    /\ chTrace = <<1, 2, 3, 0>>

\* C9: when interceptor mi does not call its next handler, no interceptor after it
\* and not final is invoked, and the response is exactly what m1..mi wrote.
C9_ShortCircuit ==
    (chPc \in {"run", "done"} /\ ~AllForward) =>
        /\ \A k \in 1..Len(chTrace) : chTrace[k] # 0 /\ chTrace[k] <= FirstReject
        /\ IsPrefix(chResp, WritesUpTo(FirstReject))
        /\ chPc = "done" =>
              /\ chTrace = [k \in 1..FirstReject |-> k]
              /\ chResp = WritesUpTo(FirstReject)

C9_Witness ==
    /\ chPc = "done"
    /\ Len(middlewares) = 3
    /\ middlewares[1] = "cors" /\ middlewares[2] = "ratelimit"
    /\ chDecide[2] = "reject" /\ chDecide[3] = "reject"
    /\ chTrace = <<1, 2>>
    /\ chResp = <<[by |-> 1, status |-> 0], [by |-> 2, status |-> StatusTooManyRequests]>>

(***************************************************************************)
(* Claims about GetKey.                                                    *)
(***************************************************************************)
\* The query parameters that count: the parsed values without the ignored names.
Counted(r) == DelParams(URLQuery(r.query), ignoreParams)

SameIdentity(r1, r2) ==
    /\ r1.method = r2.method
    /\ r1.path = r2.path
    /\ Counted(r1) = Counted(r2)

\* C10: two requests with the same method, the same path and the same (name, values)
\* query parameters once the ignored ones are removed get the same key, whatever
\* ignored parameters they carry and in whatever order the names appear.
C10_SameIdentitySameKey ==
    (kKey # <<>> /\ SameIdentity(kReq[1], kReq[2])) => kKey[1] = kKey[2]

C10_Witness ==
    /\ kKey # <<>>
    /\ SameIdentity(kReq[1], kReq[2])
    /\ kReq[1].query # kReq[2].query
    /\ Len(kReq[1].query) = 2 /\ Len(kReq[2].query) = 2
    /\ kReq[1].query[1].name # kReq[1].query[2].name
    /\ kReq[1].query[1] = kReq[2].query[2]
    /\ kReq[1].query[2] = kReq[2].query[1]
    /\ kKey[1] = kKey[2]

(***************************************************************************)
(* Claims about the cache interceptor.                                     *)
(***************************************************************************)
ExcludedRequest(r) ==
    \E i \in 1..Len(cacheConfig.cache.ExcludePaths) :
        HasPrefix(r.path, cacheConfig.cache.ExcludePaths[i])

CaKey(r) == GetKey(cacheConfig.cache.IgnoreParams, r)

\* C11: under either pattern, after any sequence of requests, the store holds no
\* entry under a key derived from a request whose path starts with a prefix of
\* ExcludePaths, and Store is never called for such a request.
C11_ExcludedNeverStored ==
    /\ \A r \in CacheRequests : ExcludedRequest(r) => ~cacheStore[CaKey(r)].present
    /\ \A w \in Workers : ExcludedRequest(caReq[w].r) => caReq[w].storeCalls = 0

\* C12: under WriteThrough, once a non-GET request on path P and query Q has been
\* answered 200 by the origin and its entry has been stored, the store holds the
\* response just written under the key a GET on P and Q derives, so that the GET
\* which follows immediately is served from the cache.
C12_WriteThenRead ==
    \A w \in Workers :
        ( /\ cacheConfig.pattern = "WriteThrough"
          /\ caReq[w].pc = "done"
          /\ caReq[w].r.method # "GET"
          /\ caReq[w].w.status = StatusOK
          /\ caReq[w].stored = "ok" )
        => LET e == cacheStore[ReadKey(cacheConfig.cache.IgnoreParams, caReq[w].r)]
           IN /\ e.present
              /\ e.served = Delivered(caReq[w].w)
              /\ e.body = caReq[w].w.body

\* C13: a Cache-Aside hit delivers to its caller the status, the headers and the body
\* that the caller of the request which populated the entry received, whatever the
\* origin handler did (including writing a body without calling WriteHeader).
C13_HitEqualsPopulatingMiss ==
    \A w \in Workers :
        (caReq[w].pc = "done" /\ caReq[w].fetched = "hit")
        => Delivered(caReq[w].w) = caReq[w].replayed.served

\* C14: on a Cache-Aside hit the origin handler is not invoked, Store is not called,
\* and the calls made on the caller's writer are exactly: the stored headers, then
\* WriteHeader with the stored status, then Write with the stored body.
C14_HitReplaysVerbatim ==
    \A w \in Workers :
        (caReq[w].pc = "done" /\ caReq[w].fetched = "hit")
        => LET e == caReq[w].replayed
           IN /\ caReq[w].originCalls = 0
              /\ caReq[w].storeCalls = 0
              /\ caReq[w].w.calls = << [op |-> "Header", arg |-> e.headers],
                                       [op |-> "WriteHeader", arg |-> e.status],
                                       [op |-> "Write", arg |-> e.body] >>

\* What the caller receives when the origin handler answers o on the caller's own
\* writer, with no cache in between.
ServedBy(o) == Delivered(ServeDirect(NewWriter, o))

\* C15: on a Cache-Aside miss (Fetch returned absent) the origin handler is invoked
\* exactly once and Store is called exactly once, only after the origin has returned,
\* with the key GetKey derives for the request and the status, headers and body the
\* origin handler wrote.
C15_MissCapturesThenStores ==
    \A w \in Workers :
        caReq[w].fetched = "miss" =>
            /\ caReq[w].originCalls <= 1
            /\ caReq[w].storeCalls <= caReq[w].originCalls
            /\ caReq[w].pc = "store" => caReq[w].originCalls = 1 /\ caReq[w].storeCalls = 0
            /\ caReq[w].pc = "done" =>
                 /\ caReq[w].originCalls = 1
                 /\ caReq[w].storeCalls = 1
                 /\ caReq[w].storeArgs =
                      << CaKey(caReq[w].r),
                         CachedResponse(caReq[w].origin.code, caReq[w].origin.headers,
                                        caReq[w].origin.body) >>

C15_Witness ==
    \E w \in Workers :
        /\ caReq[w].pc = "done"
        /\ caReq[w].fetched = "miss"
        /\ caReq[w].stored = "ok"
        /\ caReq[w].origin.code = StatusNotFound
        /\ cacheStore[caReq[w].key].present
        /\ cacheStore[caReq[w].key].body = caReq[w].origin.body

\* The step in which goroutine w performs its Fetch.
CaFetchStep(w) == caReq[w].pc = "fetch" /\ caReq'[w].pc # "fetch"

\* The step in which goroutine w returns from its call of Store, in either pattern.
CaStoreStep(w) == caReq[w].pc \in {"store", "wtstore"} /\ caReq'[w].pc = "done"

\* C16: an entry stored at time t with TTL T expires at t + T: a Fetch (without a
\* fault) before t + T returns it, a Fetch after t + T returns absent and the GET is
\* handled as a miss, whose Store writes the entry again with the expiry counted from
\* the time of that Store.
C16_EntryLivesForTTL ==
    /\ [](\A k \in DOMAIN cacheStore :
             cacheStore[k].present => cacheStore[k].exp = cacheStore[k].at + cacheConfig.cache.TTL)
    /\ [][\A w \in Workers :
             (CaFetchStep(w) /\ caReq'[w].fetched # "error") =>
                 LET e == cacheStore[caReq'[w].key]
                     T == cacheConfig.cache.TTL
                 IN /\ (e.present /\ now < e.at + T) =>
                         (caReq'[w].fetched = "hit" /\ caReq'[w].replayed = e)
                    /\ (~e.present \/ now > e.at + T) =>
                         (caReq'[w].fetched = "miss" /\ caReq'[w].pc = "origin")]_vars
    /\ [][\A w \in Workers :
             (CaStoreStep(w) /\ caReq'[w].fetched = "miss" /\ caReq'[w].stored = "ok") =>
                 /\ caReq'[w].originCalls = 1
                 /\ cacheStore'[caReq'[w].key].present
                 /\ cacheStore'[caReq'[w].key].at = now]_vars

\* A GET finds its entry in the store past its expiry: the Fetch answered absent
\* over the expired entry, the origin has been invoked, and the Store that writes
\* the entry again is the call in progress.
C16_Witness ==
    \E w \in Workers :
        /\ cacheConfig.pattern = "CacheAside"
        /\ caReq[w].pc = "store"
        /\ caReq[w].r.method = "GET"
        /\ caReq[w].fetched = "miss"
        /\ caReq[w].originCalls = 1
        /\ cacheStore[caReq[w].key].present
        /\ cacheStore[caReq[w].key].at + cacheConfig.cache.TTL < now

\* C17: after a request whose method is in InvalidateOn has been served for a path,
\* an entry stored for a GET of that path before it is not replayed any more.
C17_InvalidatingWriteEvicts ==
    \A w \in Workers :
        (caReq[w].pc = "done" /\ caReq[w].fetched = "hit") => ~caReq[w].replayed.stale

\* C18: the Store call, whether it fails or succeeds, leaves what the caller has
\* received untouched: status, headers and body are those the origin handler produced,
\* and nothing is written to the caller's writer after the origin has returned.
C18_StoreFailureIsInvisible ==
    /\ [][\A w \in Workers : CaStoreStep(w) => caReq'[w].w = caReq[w].w]_vars
    /\ [](\A w \in Workers :
             (caReq[w].pc = "done" /\ caReq[w].stored = "error") =>
                 Delivered(caReq[w].w) = ServedBy(caReq[w].origin))

C18_Witness ==
    \E w \in Workers :
        /\ caReq[w].pc = "done"
        /\ caReq[w].stored = "error"
        /\ caReq[w].fetched = "miss"
        /\ caReq[w].w.status = StatusOK
        /\ caReq[w].w.body = "ok"

\* C19: when Fetch returns an error the origin handler is invoked exactly once and the
\* caller receives what the origin handler wrote, as it would without the cache; no
\* error status is produced by the interceptor.
C19_FetchFailureIsAMiss ==
    \A w \in Workers :
        caReq[w].fetched = "error" =>
            /\ caReq[w].originCalls <= 1
            /\ caReq[w].pc \in {"origin", "store", "done"}
            /\ caReq[w].pc \in {"store", "done"} =>
                 /\ caReq[w].originCalls = 1
                 /\ Delivered(caReq[w].w) = ServedBy(caReq[w].origin)

C19_Witness ==
    \E w \in Workers :
        /\ caReq[w].pc = "done"
        /\ caReq[w].fetched = "error"
        /\ caReq[w].originCalls = 1
        /\ Live(cacheStore[caReq[w].key])
        /\ caReq[w].w.body = "contact"

\* C20: requests for one key that have all performed their Fetch (and found nothing)
\* before any of them performs its Store each invoke the origin handler once and each
\* call Store once; none of them waits for another.
C20_NoSingleFlight ==
    \A w \in Workers :
        caReq[w].raced =>
            /\ caReq[w].pc = "origin" => ENABLED CacheOrigin(w)
            /\ caReq[w].pc \in {"store", "done"} => caReq[w].originCalls = 1
            /\ caReq[w].pc = "done" => caReq[w].storeCalls = 1

C20_Witness ==
    \E w, v \in Workers :
        /\ w # v
        /\ caReq[w].key = caReq[v].key
        /\ caReq[w].raced /\ caReq[v].raced
        /\ caReq[w].pc = "done" /\ caReq[v].pc = "done"
        /\ caReq[w].originCalls = 1 /\ caReq[v].originCalls = 1
        /\ caReq[w].storeCalls = 1 /\ caReq[v].storeCalls = 1

(***************************************************************************)
(* Claims about the response capture.                                      *)
(***************************************************************************)
\* The bytes of the Write calls of a log, in call order.
RECURSIVE WrittenBytes(_)
WrittenBytes(log) ==
    IF log = <<>> THEN ""
    ELSE (IF Head(log).op = "Write" THEN Head(log).arg ELSE "") \o WrittenBytes(Tail(log))

\* The status of the last WriteHeader call of a log (0: there is none).
RECURSIVE LastStatus(_)
LastStatus(log) ==
    IF log = <<>> THEN 0
    ELSE IF log[Len(log)].op = "WriteHeader" THEN log[Len(log)].arg
    ELSE LastStatus(SubSeq(log, 1, Len(log) - 1))

\* C21: after any sequence of Write and WriteHeader calls on a CacheResponseWriter the
\* buffer is the concatenation of the written slices in call order, the captured
\* status is that of the last WriteHeader call, and the wrapped writer has received
\* the same calls with the same arguments in the same order.
C21_CaptureMirrors ==
    /\ cwObj.body = WrittenBytes(cwLog)
    /\ cwObj.status = LastStatus(cwLog)
    /\ cwObj.rw.calls = cwLog

C21_Witness ==
    /\ cwLog = << [op |-> "Write", arg |-> "a"],
                  [op |-> "WriteHeader", arg |-> StatusNotFound],
                  [op |-> "Write", arg |-> "bc"] >>
    /\ cwObj.body = "abc"
    /\ cwObj.status = StatusNotFound
    /\ cwObj.rw.body = "abc"

(***************************************************************************)
(* Claims about the Write-Through mutation path.                           *)
(***************************************************************************)
\* A success status, as the caller sees it.
Success(status) == status >= 200 /\ status < 300

\* C22: under WriteThrough, for every non-GET request the origin handler is invoked
\* exactly once, and Store is called afterwards if and only if the caller received a
\* success status (an implicit 200 and a 201 included).
C22_StoresIffOriginSucceeded ==
    \A w \in Workers :
        ( /\ cacheConfig.pattern = "WriteThrough"
          /\ caReq[w].r.method # "GET"
          /\ caReq[w].pc = "done" )
        => /\ caReq[w].originCalls = 1
           /\ caReq[w].storeCalls = 1 <=> Success(caReq[w].w.status)


\* The positions of a request after isOpen() has returned.
CbPastIsOpen == {"decided", "origin", "done"}

\* The positions of a request after getLimiter() has returned.
RlPastGetLimiter == {"allow", "origin", "done"}

\* C23: a request that has left isOpen() holds no read lock of the breaker, and
\* one that has left getLimiter() does not hold the registry's mutex; so neither
\* lock is held while the next handler runs.
C23_NoLockAcrossNext ==
    \A w \in Workers :
        /\ cbReq[w].pc \in CbPastIsOpen => w \notin cbReaders
        /\ rlReq[w].pc \in RlPastGetLimiter => rlMu # w

\* The next handler of the limiter and that of the breaker both run for a request
\* while both locks are free.
C23_Witness ==
    \E w \in Workers :
        /\ rlReq[w].pc = "origin"
        /\ cbReq[w].pc = "origin"
        /\ rlMu = 0
        /\ cbReaders = {}

\* The requests inside isOpen()'s critical section, holding the read lock.
CbInIsOpen == {"check", "reset", "runlock"}

\* C24: a request about to write cb.failures is the only holder of the breaker's
\* lock: no other request is about to write it, and none is inside the section
\* that reads it.
C24_WritesUnderExclusiveLock ==
    \A w \in Workers :
        cbReq[w].pc = "reset" =>
            /\ cbReaders = {w}
            /\ \A v \in Workers \ {w} : cbReq[v].pc \notin CbInIsOpen

\* A request that found failures >= threshold with the reset timeout elapsed
\* executes cb.failures = 0.
CbResetStep ==
    \E w \in Workers :
        /\ cbReq[w].pc = "reset"
        /\ cbReq[w].viaReset
        /\ cbReq'[w].pc = "runlock"
        /\ failures' = 0
        /\ lastFailure' = lastFailure

\* C25: only the open-to-closed transition writes the failure counter; every other
\* step of a request (the closed branch, the open branch, the origin handler's
\* success or failure) leaves failures and lastFailure unchanged.
C25_ClearedOnlyByReset ==
    [][CbResetStep \/ (failures' = failures /\ lastFailure' = lastFailure)]_vars

\* A request found the breaker closed and its origin handler succeeded, after an
\* earlier request: the counter is what the request read.
C25_Witness ==
    \E w \in Workers :
        /\ cbReq[w].pc = "done"
        /\ ~cbReq[w].viaReset
        /\ ~cbReq[w].open
        /\ cbReq[w].seenFailures < failureThreshold
        /\ cbReq[w].status = StatusOK
        /\ failures = cbReq[w].seenFailures
        /\ cbServed > 1

\* The tokens of limiter id available now.
Available(id) == Advance(limiterObjs[id], now)

\* The smaller of two numbers.
Least(a, b) == IF a < b THEN a ELSE b

\* Every bucket holds between 0 and the burst, stored and available.
TokensInRange ==
    \A id \in DOMAIN limiterObjs :
        /\ limiterObjs[id].tokens >= 0 /\ limiterObjs[id].tokens <= FullBucket
        /\ Available(id) >= 0 /\ Available(id) <= FullBucket

\* Request w leaves limiter.Allow(): it is passed on if and only if a token was
\* available, and then exactly one token is gone; a refused request is answered
\* 429 and leaves the bucket as it was.
AllowStep(w) ==
    LET id == rlReq[w].limiter
        passed == rlReq'[w].pc = "origin"
    IN /\ passed <=> Available(id) >= OneToken
       /\ passed => Advance(limiterObjs'[id], now') = Available(id) - OneToken
       /\ ~passed => /\ limiterObjs'[id] = limiterObjs[id]
                     /\ rlReq'[w].status = StatusTooManyRequests

\* A step that is no Allow on limiter id adds to it what the time passed refills,
\* up to the burst.
RefillStep(id) ==
    Advance(limiterObjs'[id], now') =
        Least(Available(id) + (now' - now), FullBucket)

\* C26: the tokens of every limiter stay between 0 and the burst; they grow only
\* with time, at the refill rate and not beyond the burst; a request is allowed if
\* and only if a token is available, an allowed request takes exactly one token
\* and a rejected request takes none.
C26_TokenBucket ==
    /\ []TokensInRange
    /\ [][ /\ \A w \in Workers :
                (rlReq[w].pc = "allow" /\ rlReq'[w].pc # "allow") => AllowStep(w)
           /\ \A id \in DOMAIN limiterObjs :
                (\A w \in Workers :
                    ~(rlReq[w].pc = "allow" /\ rlReq'[w].pc # "allow"
                      /\ rlReq[w].limiter = id))
                => RefillStep(id)
           /\ \A id \in DOMAIN limiterObjs' \ DOMAIN limiterObjs :
                limiterObjs'[id].tokens = FullBucket ]_vars

\* A request was refused on an empty bucket, which the time passed since has
\* refilled in part.
C26_Witness ==
    \E w \in Workers :
        /\ rlReq[w].pc = "done"
        /\ rlReq[w].status = StatusTooManyRequests
        /\ limiterObjs[rlReq[w].limiter].tokens < OneToken
        /\ Available(rlReq[w].limiter) > limiterObjs[rlReq[w].limiter].tokens

\* The rate the comment on rate.NewLimiter states: requests per second, which is
\* as many token units per tick.
CommentedRate == 10

\* C27: each limiter admits 10 requests per second: the tokens available are those
\* left by the last allowed request plus 10 for every second passed since, up to
\* the burst.
C27_TenPerSecond ==
    \A id \in DOMAIN limiterObjs :
        Available(id) >=
            Least(limiterObjs[id].tokens
                    + CommentedRate * (IF now < limiterObjs[id].last THEN 0
                                       ELSE now - limiterObjs[id].last),
                  FullBucket)

\* How many times middlewares[i] has been applied to a handler so far: once in
\* every request served before, and once more when the loop of the request being
\* served has passed index i.
Applied(i) ==
    IF chServed = 0 THEN 0
    ELSE (chServed - 1) + (IF chI < i THEN 1 ELSE 0)

\* C28: the chain is composed once: each Middleware function passed to Chain is
\* applied at most once, however many requests are served.
C28_ComposedOnce ==
    \A i \in 1..Len(middlewares) : Applied(i) <= 1

\* Requests ShouldCache is asked about: every method, paths inside and outside the
\* excluded prefixes, with and without Cache-Control directives.
ShouldCacheInputs ==
    [method : {"GET", "HEAD", "POST", "PUT", "DELETE"},
     path : CachePaths \cup {"/admin", "/adm", "/"},
     query : {<<>>},
     cacheControl : CacheControls \cup {"max-age=0"}]

\* C29: ShouldCache(r) holds exactly for a GET request whose path has no prefix in
\* ExcludePaths and whose Cache-Control header is not no-cache; no other method is
\* cacheable; and CacheAside consults the store only for such requests.  (The
\* configuration never changes, so the function is examined on the inputs before
\* the first request, and on every request served.)
C29_ShouldCacheIff ==
    /\ caServed = 0 =>
         \A r \in ShouldCacheInputs :
            /\ ShouldCache(cacheConfig.cache, r)
                 <=> ( /\ r.method = "GET"
                       /\ ~ExcludedRequest(r)
                       /\ r.cacheControl # "no-cache" )
            /\ r.method # "GET" => ~ShouldCache(cacheConfig.cache, r)
    /\ \A w \in Workers :
         (cacheConfig.pattern = "CacheAside" /\ caReq[w].pc # "idle") =>
             ( (caReq[w].pc = "fetch" \/ caReq[w].fetchCalls > 0)
               <=> ( /\ caReq[w].r.method = "GET"
                     /\ ~ExcludedRequest(caReq[w].r)
                     /\ caReq[w].r.cacheControl # "no-cache" ) )

\* A GET outside the excluded paths that carries Cache-Control: no-cache has been
\* served without consulting the store, after a GET without the header was served
\* from the origin and stored.
C29_Witness ==
    \E w \in Workers :
        /\ cacheConfig.pattern = "CacheAside"
        /\ caReq[w].pc = "done"
        /\ caReq[w].r.method = "GET"
        /\ ~ExcludedRequest(caReq[w].r)
        /\ caReq[w].r.cacheControl = "no-cache"
        /\ caReq[w].fetchCalls = 0
        /\ caReq[w].originCalls = 1
        /\ \E k \in DOMAIN cacheStore : cacheStore[k].present

\* What the store holds under a key: the entry without the bookkeeping of the model.
Held(entry) ==
    [present |-> entry.present, status |-> entry.status, headers |-> entry.headers,
     body |-> entry.body, exp |-> entry.exp]

\* The pass-through of request w that would change what the store holds.
PassChangesStore(w) ==
    /\ CachePass(w)
    /\ \E k \in DOMAIN cacheStore : Held(cacheStore'[k]) # Held(cacheStore[k])

\* C30: under CacheAside a request for which ShouldCache is false goes straight to
\* the origin handler: the handler is invoked exactly once on the caller's own
\* writer (no capturing writer is made), Fetch and Store are not called, the
\* pass-through leaves what the store holds unchanged, and no entry is replayed.
C30_PassThrough ==
    \A w \in Workers :
        ( /\ cacheConfig.pattern = "CacheAside"
          /\ caReq[w].pc # "idle"
          /\ ~ShouldCache(cacheConfig.cache, caReq[w].r) )
        => /\ caReq[w].pc \in {"pass", "done"}
           /\ caReq[w].fetchCalls = 0
           /\ caReq[w].storeCalls = 0
           /\ caReq[w].fetched = "none"
           /\ caReq[w].replayed = NoEntry
           /\ caReq[w].cw = NoCapture
           /\ caReq[w].pc = "pass" =>
                /\ caReq[w].originCalls = 0
                /\ ~ENABLED PassChangesStore(w)
           /\ caReq[w].pc = "done" =>
                /\ caReq[w].originCalls = 1
                /\ caReq[w].w = ServeDirect(NewWriter, caReq[w].origin)

\* A GET carrying Cache-Control: no-cache was answered by the origin handler while
\* the store held a live entry for its key with another body.
C30_Witness ==
    \E w \in Workers :
        /\ cacheConfig.pattern = "CacheAside"
        /\ caReq[w].pc = "done"
        /\ caReq[w].r.method = "GET"
        /\ caReq[w].r.cacheControl = "no-cache"
        /\ caReq[w].originCalls = 1
        /\ Live(cacheStore[CaKey(caReq[w].r)])
        /\ cacheStore[CaKey(caReq[w].r)].body # caReq[w].origin.body

\* The handling CacheAside gives request q, told from what the request met (the
\* Fetch result, the origin's answer, the Store result): the calls made and the
\* caller's writer once the request is done.
CacheAsideHandling(q) ==
    /\ q.pc \in {"pass", "fetch", "origin", "store", "done"}
    /\ q.pc = "done" =>
         IF ~ShouldCache(cacheConfig.cache, q.r)
         THEN /\ q.originCalls = 1 /\ q.fetchCalls = 0 /\ q.storeCalls = 0
              /\ q.w = ServeDirect(NewWriter, q.origin)
         ELSE IF q.fetched = "hit"
         THEN /\ q.originCalls = 0 /\ q.fetchCalls = 1 /\ q.storeCalls = 0
              /\ q.w = Replay(NewWriter, q.replayed)
         ELSE /\ q.originCalls = 1 /\ q.fetchCalls = 1 /\ q.storeCalls = 1
              /\ q.key = CaKey(q.r)
              /\ q.storeArgs = <<q.key, CachedResponse(q.cw.status, q.w.header, q.cw.body)>>
              /\ Delivered(q.w) = ServedBy(q.origin)

\* C31: a GET is handled under WriteThrough exactly as under CacheAside: both
\* patterns take the same first branch for every GET, and every GET served, under
\* either pattern, gets CacheAside's handling (same origin, Fetch and Store calls,
\* same response).
C31_WriteThroughReadsAsCacheAside ==
    /\ caServed = 0 =>
         \A r \in CacheRequests :
            r.method = "GET" =>
               Route([cacheConfig EXCEPT !.pattern = "WriteThrough"], r)
                 = Route([cacheConfig EXCEPT !.pattern = "CacheAside"], r)
    /\ \A w \in Workers :
         (caReq[w].pc # "idle" /\ caReq[w].r.method = "GET") => CacheAsideHandling(caReq[w])

\* Under WriteThrough a GET was answered from the store, from the entry an earlier
\* GET had stored after its miss.
C31_Witness ==
    \E w \in Workers :
        /\ cacheConfig.pattern = "WriteThrough"
        /\ caReq[w].pc = "done"
        /\ caReq[w].r.method = "GET"
        /\ caReq[w].fetched = "hit"
        /\ caReq[w].originCalls = 0
        /\ caReq[w].replayed.present

\* The string prefix:method:path:query of request r, ignored parameters removed.
FullKey(r) ==
    KeyPrefix \o ":" \o r.method \o ":" \o r.path \o ":" \o Encode(Counted(r), r.query)

\* The larger of two numbers.
Greatest(a, b) == IF a > b THEN a ELSE b

\* C32: a full key of at most 200 characters is returned unchanged; a longer one is
\* replaced by KeyPrefix:hash: and the 64 hex digits of its SHA-256; so a derived
\* key has at most max(200, len(KeyPrefix) + 70) characters and starts with the
\* namespace prefix.
C32_KeyBounded ==
    kKey # <<>> =>
        \A i \in 1..2 :
            /\ Len(FullKey(kReq[i])) <= KeyLimit => kKey[i] = FullKey(kReq[i])
            /\ Len(FullKey(kReq[i])) > KeyLimit =>
                 /\ kKey[i] = KeyPrefix \o ":hash:" \o Sha256Hex(FullKey(kReq[i]))
                 /\ KeyLen(kKey[i]) = Len(KeyPrefix) + 6 + Sha256HexLen
            /\ KeyLen(kKey[i]) <= Greatest(KeyLimit, Len(KeyPrefix) + 70)
            /\ HasPrefix(kKey[i], KeyPrefix \o ":")

\* The GET's full key is exactly 200 characters long and is returned as it is; the
\* POST's, one character longer, is hashed.
C32_Witness ==
    /\ kKey # <<>>
    /\ Len(FullKey(kReq[1])) = KeyLimit
    /\ kKey[1] = FullKey(kReq[1])
    /\ Len(FullKey(kReq[2])) = KeyLimit + 1
    /\ kKey[2] # FullKey(kReq[2])
    /\ KeyLen(kKey[2]) < Len(FullKey(kReq[2]))

\* C33: whatever TTL the configuration gave (zero, positive or negative), the TTL
\* of the cache is greater than 0, when it is built and while it serves requests.
C33_TTLPositive == cacheConfig.cache.TTL > 0

\* What CacheAside captures from the origin response o: the status passed to
\* WriteHeader, the headers of the writer and the bytes written.
CapturedFrom(o) ==
    LET cw == ServeCaptured(NewCacheResponseWriter(NewWriter), o)
    IN CachedResponse(cw.status, cw.rw.header, cw.body)

\* C34: under any interleaving of concurrent Stores for a key, the value held for
\* the key is the complete (status, headers, body) triple captured from one origin
\* response, never parts of two.
C34_ReplacedWholesale ==
    \A k \in DOMAIN cacheStore :
        cacheStore[k].present =>
            \E o \in OriginResponses :
                CachedResponse(cacheStore[k].status, cacheStore[k].headers, cacheStore[k].body)
                    = CapturedFrom(o)

\* Two requests for one key both missed and both stored, with different origin
\* responses: the key holds the triple of one of them.
C34_Witness ==
    \E w, v \in Workers :
        /\ w # v
        /\ caReq[w].key = caReq[v].key
        /\ caReq[w].raced /\ caReq[v].raced
        /\ caReq[w].pc = "done" /\ caReq[v].pc = "done"
        /\ caReq[w].stored = "ok" /\ caReq[v].stored = "ok"
        /\ caReq[w].origin.code # caReq[v].origin.code
        /\ caReq[w].origin.headers # caReq[v].origin.headers
        /\ caReq[w].origin.body # caReq[v].origin.body
        /\ CachedResponse(cacheStore[caReq[w].key].status, cacheStore[caReq[w].key].headers,
                          cacheStore[caReq[w].key].body) = caReq[w].storeArgs[2]

\* C35: every failed Store call produces a log record, in the Cache-Aside miss path
\* and in the Write-Through mutation path alike.
C35_StoreFailureLogged ==
    \A w \in Workers :
        (caReq[w].pc = "done" /\ caReq[w].stored = "error") => caReq[w].logged >= 1

\* C36: Cache-Aside stores what the origin answered on a miss whatever its status:
\* after the Store of a miss the key holds the captured response, an error response
\* like any other; and a GET that finds a stored error response replays it, with
\* its status and body, without invoking the origin handler.
C36_ErrorResponsesCached ==
    /\ [][\A w \in caLoad.goroutines :
             ( /\ CaStoreStep(w)
               /\ caReq'[w].fetched \in {"miss", "error"}
               /\ caReq'[w].stored = "ok" )
             => /\ caReq'[w].storeArgs[2].status = caReq[w].origin.code
                /\ caReq'[w].storeArgs[2].body = caReq[w].origin.body
                /\ cacheStore'[caReq[w].key].present
                /\ cacheStore'[caReq[w].key].status = caReq[w].origin.code
                /\ cacheStore'[caReq[w].key].body = caReq[w].origin.body]_vars
    /\ [](\A w \in caLoad.goroutines :
             ( /\ caReq[w].pc = "done"
               /\ caReq[w].fetched = "hit"
               /\ caReq[w].replayed.status >= 400 )
             => /\ caReq[w].originCalls = 0
                /\ Delivered(caReq[w].w).status = caReq[w].replayed.status
                /\ Delivered(caReq[w].w).body = caReq[w].replayed.body)

\* A GET was answered 404 "Contact not found" from the store, without the origin.
C36_Witness ==
    \E w \in Workers :
        /\ cacheConfig.pattern = "CacheAside"
        /\ caReq[w].pc = "done"
        /\ caReq[w].r.method = "GET"
        /\ caReq[w].fetched = "hit"
        /\ caReq[w].originCalls = 0
        /\ caReq[w].replayed.status = StatusNotFound
        /\ Delivered(caReq[w].w).status = StatusNotFound
        /\ Delivered(caReq[w].w).body = "Contact not found"

\* C37: no step of the interceptor changes the request it is serving: after
\* ShouldCache and GetKey the method, the path, the Cache-Control header and the
\* query, ignored parameters included, are those the request came with, so the
\* origin handler receives them.
C37_RequestUntouched ==
    [][\A w \in Workers :
          caReq[w].pc \notin {"idle", "done"} => caReq'[w].r = caReq[w].r]_vars

\* A GET with an ignored parameter missed, and its origin handler has been called
\* with the parameter still in the query, while the key leaves it out.
C37_Witness ==
    \E w \in Workers :
        /\ caReq[w].pc \in {"store", "done"}
        /\ caReq[w].fetchCalls = 1
        /\ caReq[w].originCalls = 1
        /\ caReq[w].r.query = <<[name |-> "utm", value |-> "1"]>>
        /\ "utm" \in cacheConfig.cache.IgnoreParams
        /\ caReq[w].key = GetKey(cacheConfig.cache.IgnoreParams,
                                 [caReq[w].r EXCEPT !.query = <<>>])

\* C38: email uniqueness -- after any interleaving of concurrent CreateContact
\* calls (no other call writes the collection) the collection never holds two
\* contacts with the same email.
C38_EmailUnique ==
    csLoad.ops = {"create"} => \A e \in Emails : Cardinality(WithEmail(contacts, e)) <= 1

\* C39: BulkCreateContacts is all-or-nothing -- a call that has returned an
\* error has added none of the contacts of its batch to the collection.
C39_AllOrNothing ==
    \A w \in Workers :
        (csReq[w].pc = "done" /\ csReq[w].result # "nil") => csReq[w].added = 0

====
